---- MODULE Spec2Model ----
(***************************************************************************)
(* Control-flow program environment of ppo/control_flow/env.py:            *)
(*   - get_lines        the random program synthesizer                     *)
(*   - get_transitions  the transition compiler                            *)
(*   - line_generator   the resumable interpreter                          *)
(*   - generator        the reset/step loop of the environment             *)
(* Line indices are the 0-based indices of the Python code; the program    *)
(* prog is a TLA+ sequence, so line i of the code is prog[i + 1].          *)
(* Python's None is the value NoneV.                                       *)
(***************************************************************************)
EXTENDS Integers, Sequences, FiniteSets, TLC

VARIABLES
    \* ---- get_lines (one recursion level per step)
    gl_n0,                  \* n of the outermost call
    gl_n,                   \* n of the current call
    gl_active_conditions,   \* active_conditions of the current call
    gl_last,                \* last of the current call
    gl_nesting_depth,       \* nesting_depth of the current call
    gl_max_nesting_depth,   \* max_nesting_depth
    gl_lines,               \* the line types chosen so far (prefix of the result)
    gl_pc,                  \* "run" while recursing, "done" once the result is complete
    \* ---- line_generator
    lines,                  \* the program
    li,                     \* i of line_generator
    if_evaluations,         \* if_evaluations of line_generator
    err,                    \* an exception escaped the interpreter (IndexError)
    \* ---- history of an interpreter run
    yielded,                \* Subtask indices (and NoneV for done) yielded so far
    fed,                    \* condition bits received while positioned at an If or While
    if_last,                \* per line index: last evaluation (0/1) made at that If, NoneV if none
    \* ---- Env.__init__
    min_lines,
    max_lines,
    eval_lines,
    evaluating,
    eval_condition_size,
    terminate_on_failure,
    no_op_limit,            \* NoneV when not set
    iterator,               \* "None" before the first reset, then "generator"
    \* ---- locals of Env.generator, as they stand at its yield
    failing,
    step,
    n_noops,                \* n, the number of no-ops received
    condition_bit,
    msg,                    \* default argument of next_subtask, bound when it was defined
    prev,
    active,
    t,                      \* terminal flag of the last yield
    r,                      \* reward of the last yield
    action,                 \* the action the last step call sent, NoneV after reset
    hung,                   \* next_subtask did not return
    selected,               \* the line the rendering cursor is on
    lg_table,               \* line_transitions of the interpreter: the dict index -> list of targets
    \* ---- get_transitions run on its own (the program is lines, err its exception)
    gt_pc,                  \* "idle", "start" before the table is compiled, then "done"
    gt_table,               \* the pairs <<_from, _to>> it yielded, in order
    \* ---- state_generator of multi_step/env.py (its program is lines, its
    \* line_iterator is li, if_evaluations, err)
    ms_pc,                  \* "idle", "created", then "running"
    ptr,                    \* ptr of state_generator
    loops,                  \* self.loops, NoneV for None
    ms_steps,               \* calls of next_subtask made so far
    loop_entered,           \* per Loop line: entries of its body since control reached it from outside
    loop_exits,             \* <<Loop line, entries of its body>> recorded whenever control left a Loop
    \* ---- Env of road_closures/env.py
    rc_n_states,            \* n_states
    rc_baseline,            \* baseline
    rc_time_limit,          \* time_limit
    rc_transitions,         \* self.transitions, NoneV before the first reset
    rc_state,               \* self.state
    rc_goal,                \* self.goal
    rc_open,                \* self.open, True and False as 1 and 0
    rc_last,                \* self.last
    rc_t,                   \* self.t
    \* ---- Env of blocks_world/env.py
    bw_n_cols,              \* n_cols, also n_rows
    bw_n_constraints,       \* n_constraints
    bw_search_distance,     \* search_distance
    bw_columns,             \* self.columns, NoneV before the first reset
    bw_constraints,         \* self.constraints
    bw_last,                \* self.last
    bw_t                    \* self.t

gl_vars == <<gl_n0, gl_n, gl_active_conditions, gl_last, gl_nesting_depth,
             gl_max_nesting_depth, gl_lines, gl_pc>>
lg_vars == <<lines, li, if_evaluations, err>>
hist_vars == <<yielded, fed, if_last>>
tbl_vars == <<lg_table>>
cfg_vars == <<min_lines, max_lines, eval_lines, evaluating, eval_condition_size,
              terminate_on_failure, no_op_limit>>
env_vars == <<iterator, failing, step, n_noops, condition_bit, msg, prev, active,
              t, r, action, hung, selected>>
gt_vars == <<gt_pc, gt_table>>
ms_vars == <<ms_pc, ptr, loops, ms_steps, loop_entered, loop_exits>>
rc_vars == <<rc_n_states, rc_baseline, rc_time_limit, rc_transitions, rc_state,
             rc_goal, rc_open, rc_last, rc_t>>
bw_vars == <<bw_n_cols, bw_n_constraints, bw_search_distance, bw_columns,
             bw_constraints, bw_last, bw_t>>
vars == <<gl_vars, lg_vars, hist_vars, tbl_vars, cfg_vars, env_vars, gt_vars, ms_vars,
          rc_vars, bw_vars>>

NoneV == -1

\* ---------------------------------------------------------------- bounds
MaxN == 8            \* largest n handed to get_lines
MaxDepth == 2        \* largest max_nesting_depth tried
MaxFed == 3          \* condition bits fed at If/While lines in one interpreter run
MaxYield == 4        \* yields recorded in one interpreter run
MaxStep == 3         \* step calls that advance the program, per episode
MaxNoOps == 2        \* no-op step calls per episode
MaxNoOpLimit == 2    \* the no_op_limit tried, besides None
MaxGT == 5           \* longest arbitrary list of lines handed to get_transitions
MaxMSLines == 6      \* longest program handed to state_generator
MaxMSSteps == 6      \* calls of next_subtask in one run of state_generator
max_loops == 2       \* Loop counts are drawn from 1..max_loops

\* ---------------------------------------------------------------- configuration
num_subtasks == 2
MinLines == 1        \* min_lines, max_lines, eval_lines of the base configuration
MaxLines == 2
EvalLines == 3
time_limit == 1
max_nesting_depth == 2

\* the configuration the pointer_delta runs use
PtrConfig == <<1, 2, 3>>

\* the <<min_lines, max_lines, eval_lines>> an Env is constructed with: the base
\* configuration, the smallest one, and one with max_lines + 1 < eval_lines
Configs == {<<MinLines, MaxLines, EvalLines>>, PtrConfig, <<1, 1, 2>>, <<1, 2, 4>>}

\* ---------------------------------------------------------------- lines
If == "If"
Else == "Else"
EndIf == "EndIf"
While == "While"
EndWhile == "EndWhile"
Subtask == "Subtask"
Padding == "Padding"
Loop == "Loop"            \* lines of the multi-step variant
EndLoop == "EndLoop"

line_types == <<If, Else, EndIf, While, EndWhile, Subtask, Padding>>

\* pairs = {If: EndIf, Else: EndIf, While: EndWhile}
pairs(c) == CASE c = If -> EndIf
              [] c = Else -> EndIf
              [] c = While -> EndWhile

Last(s) == s[Len(s)]
Front(s) == SubSeq(s, 1, Len(s) - 1)
Reverse(s) == [k \in 1..Len(s) |-> s[Len(s) + 1 - k]]
Range(s) == {s[k] : k \in 1..Len(s)}

\* ---------------------------------------------------------------- get_lines
\* ChoosableLineTypes with the depth test off by one (<= for <)
ChoosableLineTypes_depth(n, active_conditions, last, nesting_depth, max_nd) ==
    {Subtask}
    \cup (IF n > Len(active_conditions) + 2
             /\ (max_nd = NoneV \/ nesting_depth <= max_nd)
          THEN {If, While} ELSE {})
    \cup (IF Len(active_conditions) > 0 /\ last = Subtask
          THEN CASE Last(active_conditions) = If -> {Else, EndIf}
                 [] Last(active_conditions) = Else -> {EndIf}
                 [] Last(active_conditions) = While -> {EndWhile}
          ELSE {})

\* The list line_types that random.choice draws from (as a set).
ChoosableLineTypes(n, active_conditions, last, nesting_depth, max_nd) ==
    {Subtask}
    \cup (IF n > Len(active_conditions) + 2
             /\ (max_nd = NoneV \/ nesting_depth < max_nd)
          THEN {If, While} ELSE {})
    \cup (IF Len(active_conditions) > 0 /\ last = Subtask
          THEN CASE Last(active_conditions) = If -> {Else, EndIf}
                 [] Last(active_conditions) = Else -> {EndIf}
                 [] Last(active_conditions) = While -> {EndWhile}
          ELSE {})

\* active_conditions handed to the recursive call after line_type was drawn
NextActiveConditions(active_conditions, line_type) ==
    IF line_type \in {If, While} THEN Append(active_conditions, line_type)
    ELSE IF line_type = Else THEN Append(Front(active_conditions), line_type)
    ELSE IF line_type \in {EndIf, EndWhile} THEN Front(active_conditions)
    ELSE active_conditions

\* nesting_depth handed to the recursive call after line_type was drawn
NextNestingDepth(nesting_depth, line_type) ==
    IF line_type \in {If, While} THEN nesting_depth + 1
    ELSE IF line_type \in {EndIf, EndWhile} THEN nesting_depth - 1
    ELSE nesting_depth

\* ClosingLines with the fill counted from n instead of n - len(lines)
ClosingLines_fill(n, active_conditions) ==
    LET closers == [k \in 1..Len(active_conditions) |->
                        pairs(Reverse(active_conditions)[k])]
    IN  closers \o [k \in 1..n |-> Subtask]

\* the branch n == len(active_conditions): all closers, then Subtask fill
ClosingLines(n, active_conditions) ==
    LET closers == [k \in 1..Len(active_conditions) |->
                        pairs(Reverse(active_conditions)[k])]
    IN  closers \o [k \in 1..(n - Len(closers)) |-> Subtask]

\* every result get_lines can return, over all random draws
RECURSIVE get_lines(_, _, _, _, _)
get_lines(n, active_conditions, last, nesting_depth, max_nd) ==
    IF n < 0 THEN {<<>>}
    ELSE IF n = 0 THEN {<<>>}
    ELSE IF n = Len(active_conditions) THEN {ClosingLines(n, active_conditions)}
    ELSE IF n = 1 THEN {<<Subtask>>}
    ELSE UNION {
           {<<line_type>> \o rest :
              rest \in get_lines(n - 1,
                                 NextActiveConditions(active_conditions, line_type),
                                 line_type,
                                 NextNestingDepth(nesting_depth, line_type),
                                 max_nd)} :
           line_type \in ChoosableLineTypes(n, active_conditions, last,
                                            nesting_depth, max_nd)}

\* get_nesting_depth(lines), on line types
RECURSIVE NestingScan(_, _, _, _)
NestingScan(types, k, depth, max_depth) ==
    IF k > Len(types) THEN max_depth
    ELSE LET d1 == IF types[k] \in {If, While} THEN depth + 1 ELSE depth
             d2 == IF types[k] \in {EndIf, EndWhile} THEN d1 - 1 ELSE d1
         IN  NestingScan(types, k + 1, d2, IF d2 > max_depth THEN d2 ELSE max_depth)

get_nesting_depth(types) == NestingScan(types, 1, 0, 0)

\* ---- get_lines as a process: one action per recursion level
\* the outermost call get_lines(n, active_conditions=[], max_nesting_depth=d)
GLInit ==
    /\ gl_n0 \in -1..MaxN
    /\ gl_n = gl_n0
    /\ gl_active_conditions = <<>>
    /\ gl_last = NoneV
    /\ gl_nesting_depth = 0
    /\ gl_max_nesting_depth \in {NoneV} \cup 0..MaxDepth
    /\ gl_lines = <<>>
    /\ gl_pc = "run"

\* get_lines is not running
GLIdle ==
    /\ gl_n0 = 0
    /\ gl_n = 0
    /\ gl_active_conditions = <<>>
    /\ gl_last = NoneV
    /\ gl_nesting_depth = 0
    /\ gl_max_nesting_depth = NoneV
    /\ gl_lines = <<>>
    /\ gl_pc = "done"

\* get_transitions is not run on its own
GTIdle ==
    /\ gt_pc = "idle"
    /\ gt_table = <<>>

\* no road-closures environment exists
RCIdle ==
    /\ rc_n_states = 0
    /\ rc_baseline = FALSE
    /\ rc_time_limit = 0
    /\ rc_transitions = NoneV
    /\ rc_state = NoneV
    /\ rc_goal = NoneV
    /\ rc_open = NoneV
    /\ rc_last = NoneV
    /\ rc_t = NoneV

\* no blocks-world environment exists
BWIdle ==
    /\ bw_n_cols = 0
    /\ bw_n_constraints = 0
    /\ bw_search_distance = 0
    /\ bw_columns = NoneV
    /\ bw_constraints = NoneV
    /\ bw_last = NoneV
    /\ bw_t = NoneV

\* no state_generator exists
MSIdle ==
    /\ ms_pc = "idle"
    /\ ptr = NoneV
    /\ loops = NoneV
    /\ ms_steps = 0
    /\ loop_entered = <<>>
    /\ loop_exits = {}

\* if n < 0: return [] / if n == 0: return []
GLEmpty ==
    /\ gl_pc = "run"
    /\ gl_n <= 0
    /\ gl_pc' = "done"
    /\ UNCHANGED <<gl_n0, gl_n, gl_active_conditions, gl_last, gl_nesting_depth,
                   gl_max_nesting_depth, gl_lines>>
    /\ UNCHANGED <<lg_vars, hist_vars, tbl_vars, cfg_vars, rc_vars, bw_vars, env_vars, gt_vars, ms_vars>>

\* if n == len(active_conditions): return the closers
GLClose ==
    /\ gl_pc = "run"
    /\ gl_n > 0
    /\ gl_n = Len(gl_active_conditions)
    /\ gl_lines' = gl_lines \o ClosingLines(gl_n, gl_active_conditions)
    /\ gl_pc' = "done"
    /\ UNCHANGED <<gl_n0, gl_n, gl_active_conditions, gl_last, gl_nesting_depth,
                   gl_max_nesting_depth>>
    /\ UNCHANGED <<lg_vars, hist_vars, tbl_vars, cfg_vars, rc_vars, bw_vars, env_vars, gt_vars, ms_vars>>

\* elif n == 1: return [Subtask]
GLOne ==
    /\ gl_pc = "run"
    /\ gl_n > 0
    /\ gl_n # Len(gl_active_conditions)
    /\ gl_n = 1
    /\ gl_lines' = Append(gl_lines, Subtask)
    /\ gl_pc' = "done"
    /\ UNCHANGED <<gl_n0, gl_n, gl_active_conditions, gl_last, gl_nesting_depth,
                   gl_max_nesting_depth>>
    /\ UNCHANGED <<lg_vars, hist_vars, tbl_vars, cfg_vars, rc_vars, bw_vars, env_vars, gt_vars, ms_vars>>

\* line_type = random.choice(line_types), then the recursive call
GLChoose ==
    /\ gl_pc = "run"
    /\ gl_n > 1
    /\ gl_n # Len(gl_active_conditions)
    /\ \E line_type \in ChoosableLineTypes(gl_n, gl_active_conditions, gl_last,
                                           gl_nesting_depth, gl_max_nesting_depth) :
         /\ gl_active_conditions' = NextActiveConditions(gl_active_conditions, line_type)
         /\ gl_nesting_depth' = NextNestingDepth(gl_nesting_depth, line_type)
         /\ gl_last' = line_type
         /\ gl_lines' = Append(gl_lines, line_type)
    /\ gl_n' = gl_n - 1
    /\ UNCHANGED <<gl_n0, gl_max_nesting_depth, gl_pc>>
    /\ UNCHANGED <<lg_vars, hist_vars, tbl_vars, cfg_vars, rc_vars, bw_vars, env_vars, gt_vars, ms_vars>>


\* ---------------------------------------------------------------- get_transitions
\* no interpreter exists
LGIdle ==
    /\ lines = <<>>
    /\ li = 0
    /\ if_evaluations = <<>>
    /\ err = FALSE
    /\ yielded = <<>>
    /\ fed = <<>>
    /\ if_last = <<>>
    /\ lg_table = <<>>

Line(type, id) == [type |-> type, id |-> id]
Ctl(type) == Line(type, NoneV)

\* the line at 0-based index i
At(prog, i) == prog[i + 1]

\* get_transitions sending a While whose evaluation is false to its EndWhile
\* (for the line after it)
RECURSIVE get_transitions_endwhile(_, _, _, _)
get_transitions_endwhile(prog, pos, frames, acc) ==
    IF pos >= Len(prog) THEN [tr |-> acc, raised |-> FALSE]
    ELSE
    LET current == pos
        line == At(prog, pos).type
        previous == Last(frames)
        prv == Last(previous)
        adv == IF line = EndIf \/ line = Subtask
               THEN <<<<current, current + 1>>, <<current, current + 1>>>>
               ELSE <<>>
    IN  IF line = If \/ line = While
        THEN get_transitions_endwhile(prog, pos + 1,
                             Append(frames, Append(previous, current)), acc \o adv)
        ELSE IF line \in {Else, EndIf, EndWhile} /\ Len(previous) = 0
        THEN [tr |-> acc \o adv, raised |-> TRUE]
        ELSE IF line = Else
        THEN get_transitions_endwhile(prog, pos + 1,
                             Append(Front(frames), Append(Front(previous), current)),
                             acc \o adv \o <<<<prv, current>>, <<prv, prv + 1>>>>)
        ELSE IF line = EndIf
        THEN get_transitions_endwhile(prog, pos + 1, Front(frames),
                             acc \o adv \o <<<<prv, current>>, <<prv, prv + 1>>>>)
        ELSE IF line = EndWhile
        THEN get_transitions_endwhile(prog, pos + 1, Front(frames),
                             acc \o adv \o <<<<prv, current>>, <<prv, prv + 1>>,
                                              <<current, prv>>, <<current, prv>>>>)
        ELSE get_transitions_endwhile(prog, pos + 1, frames, acc \o adv)

\* get_transitions yielding, at an Else, the true edge of the If before its
\* false edge
RECURSIVE get_transitions_else(_, _, _, _)
get_transitions_else(prog, pos, frames, acc) ==
    IF pos >= Len(prog) THEN [tr |-> acc, raised |-> FALSE]
    ELSE
    LET current == pos
        line == At(prog, pos).type
        previous == Last(frames)
        prv == Last(previous)
        adv == IF line = EndIf \/ line = Subtask
               THEN <<<<current, current + 1>>, <<current, current + 1>>>>
               ELSE <<>>
    IN  IF line = If \/ line = While
        THEN get_transitions_else(prog, pos + 1,
                             Append(frames, Append(previous, current)), acc \o adv)
        ELSE IF line \in {Else, EndIf, EndWhile} /\ Len(previous) = 0
        THEN [tr |-> acc \o adv, raised |-> TRUE]
        ELSE IF line = Else
        THEN get_transitions_else(prog, pos + 1,
                             Append(Front(frames), Append(Front(previous), current)),
                             acc \o adv \o <<<<prv, prv + 1>>, <<prv, current>>>>)
        ELSE IF line = EndIf
        THEN get_transitions_else(prog, pos + 1, Front(frames),
                             acc \o adv \o <<<<prv, current>>, <<prv, prv + 1>>>>)
        ELSE IF line = EndWhile
        THEN get_transitions_else(prog, pos + 1, Front(frames),
                             acc \o adv \o <<<<prv, current + 1>>, <<prv, prv + 1>>,
                                              <<current, prv>>, <<current, prv>>>>)
        ELSE get_transitions_else(prog, pos + 1, frames, acc \o adv)

\* One pass of get_transitions over lines_iter.  pos is the index the shared
\* iterator delivers next;  frames holds the list `previous` of every active
\* recursive call, innermost last (the outermost call has previous = []);
\* acc is the sequence of pairs <<_from, _to>> yielded so far.
\* The result is [tr |-> pairs yielded, raised |-> an IndexError escaped].
RECURSIVE get_transitions(_, _, _, _)
get_transitions(prog, pos, frames, acc) ==
    IF pos >= Len(prog) THEN [tr |-> acc, raised |-> FALSE]      \* StopIteration
    ELSE
    LET current == pos
        line == At(prog, pos).type
        previous == Last(frames)
        prv == Last(previous)
        adv == IF line = EndIf \/ line = Subtask
               THEN <<<<current, current + 1>>, <<current, current + 1>>>>
               ELSE <<>>
    IN  IF line = If \/ line = While
        THEN get_transitions(prog, pos + 1,
                             Append(frames, Append(previous, current)), acc \o adv)
        ELSE IF line \in {Else, EndIf, EndWhile} /\ Len(previous) = 0
        THEN [tr |-> acc \o adv, raised |-> TRUE]                 \* previous[-1]
        ELSE IF line = Else
        THEN get_transitions(prog, pos + 1,
                             Append(Front(frames), Append(Front(previous), current)),
                             acc \o adv \o <<<<prv, current>>, <<prv, prv + 1>>>>)
        ELSE IF line = EndIf
        THEN get_transitions(prog, pos + 1, Front(frames),
                             acc \o adv \o <<<<prv, current>>, <<prv, prv + 1>>>>)
        ELSE IF line = EndWhile
        THEN get_transitions(prog, pos + 1, Front(frames),
                             acc \o adv \o <<<<prv, current + 1>>, <<prv, prv + 1>>,
                                              <<current, prv>>, <<current, prv>>>>)
        ELSE get_transitions(prog, pos + 1, frames, acc \o adv)

\* line_transitions[_from] = [_to] (for .append(_to)): the last pair only
TargetsOf_last(tr, i) ==
    LET ks == {k \in 1..Len(tr) : tr[k][1] = i}
    IN  IF ks = {} THEN <<>>
        ELSE <<tr[CHOOSE k \in ks : \A j \in ks : j <= k][2]>>

\* keep the pairs leaving index i, in the order they were yielded
RECURSIVE TargetsOf(_, _)
TargetsOf(tr, i) ==
    IF tr = <<>> THEN <<>>
    ELSE IF tr[1][1] = i THEN <<tr[1][2]>> \o TargetsOf(Tail(tr), i)
    ELSE TargetsOf(Tail(tr), i)

\* line_transitions with each list indexed [true, false] (for [false, true])
line_transitions_swapped(prog) ==
    LET res == get_transitions(prog, 0, <<<<>>>>, <<>>)
        rev(tg) == [k \in 1..Len(tg) |-> tg[Len(tg) + 1 - k]]
    IN  [i \in 0..(Len(prog) - 1) |-> rev(TargetsOf(res.tr, i))]

\* line_transitions of line_generator: a defaultdict(list), index -> [false, true]
line_transitions(prog) ==
    LET res == get_transitions(prog, 0, <<<<>>>>, <<>>)
    IN  [i \in 0..(Len(prog) - 1) |-> TargetsOf(res.tr, i)]

\* the defaultdict itself: the keys are the indices a pair was yielded from
AsDict(tt) == [i \in {j \in DOMAIN tt : tt[j] # <<>>} |-> tt[i]]

\* the lists the dict gives for the indices of prog ([] for a missing key)
Lists(d, prog) ==
    [i \in 0..(Len(prog) - 1) |-> IF i \in DOMAIN d THEN d[i] ELSE <<>>]

\* line_transitions.pop(i) (for line_transitions[i]): the entry read is removed
defaultdict_pop(d, i) == [j \in DOMAIN d \ {i} |-> d[j]]

\* the dict after line_transitions[i]: a missing key is inserted with []
defaultdict_get(d, i) ==
    IF i \in DOMAIN d THEN d
    ELSE [j \in DOMAIN d \cup {i} |-> IF j = i THEN <<>> ELSE d[j]]

\* ---------------------------------------------------------------- line_generator
\* line_generator taking the evaluation at an Else line from condition_bit
\* (for not if_evaluations.pop())
Resume_bit(prog, tt, i, stack, bit) ==
    IF i >= Len(prog)
    THEN [i |-> i, if_evaluations |-> stack, raised |-> TRUE]
    ELSE
    LET line == At(prog, i).type
    IN  IF line = Else /\ stack = <<>>
        THEN [i |-> i, if_evaluations |-> stack, raised |-> TRUE]
        ELSE
        LET evaluation == bit = 1
            popped == IF line = Else THEN Front(stack) ELSE stack
            pushed == IF line = If THEN Append(popped, evaluation) ELSE popped
            idx == IF evaluation THEN 2 ELSE 1
        IN  IF Len(tt[i]) < idx
            THEN [i |-> i, if_evaluations |-> pushed, raised |-> TRUE]
            ELSE [i |-> tt[i][idx], if_evaluations |-> pushed, raised |-> FALSE]

\* One resumption of line_generator: the body of its loop from the yield that
\* receives condition_bit to the next yield.  tt is line_transitions.
\* bool(condition_bit) is False for 0 and None, True for 1.
Resume(prog, tt, i, stack, bit) ==
    IF i >= Len(prog)
    THEN [i |-> i, if_evaluations |-> stack, raised |-> TRUE]        \* lines[i]
    ELSE
    LET line == At(prog, i).type
    IN  IF line = Else /\ stack = <<>>
        THEN [i |-> i, if_evaluations |-> stack, raised |-> TRUE]    \* pop from empty list
        ELSE
        LET evaluation == IF line = Else THEN ~Last(stack) ELSE bit = 1
            popped == IF line = Else THEN Front(stack) ELSE stack
            pushed == IF line = If THEN Append(popped, evaluation) ELSE popped
            idx == IF evaluation THEN 2 ELSE 1
        IN  IF Len(tt[i]) < idx
            THEN [i |-> i, if_evaluations |-> pushed, raised |-> TRUE]
            ELSE [i |-> tt[i][idx], if_evaluations |-> pushed, raised |-> FALSE]

\* the value line_generator yields when positioned at i
Yield(prog, i) == IF i >= Len(prog) THEN NoneV ELSE i

IsSubtask(prog, a) == a # NoneV /\ At(prog, a).type = Subtask

\* programs the synthesizer can return for 1..MaxN lines, subtask ids not yet drawn
SynthTypes(nmin, nmax, d) ==
    UNION {get_lines(n, <<>>, NoneV, 0, d) : n \in nmin..nmax}

WithIds(types, ids) ==
    [k \in 1..Len(types) |->
        IF types[k] = Subtask THEN Line(Subtask, ids[k]) ELSE Ctl(types[k])]

LGPrograms == {WithIds(ts, [k \in 1..Len(ts) |-> 0]) : ts \in SynthTypes(1, MaxN, MaxDepth)}

\* line_generator(lines) created and started: i = 0, if_evaluations = []
LGInit ==
    /\ lines \in LGPrograms
    /\ li = 0
    /\ if_evaluations = <<>>
    /\ err = FALSE
    /\ yielded = IF IsSubtask(lines, 0) THEN <<0>> ELSE <<>>
    /\ fed = <<>>
    /\ if_last = [i \in 0..(Len(lines) - 1) |-> NoneV]
    /\ lg_table = AsDict(line_transitions(lines))

\* line_iterator.send(condition_bit), the caller never resuming after done
LGSend(bit) ==
    LET line == At(lines, li).type
        res == Resume(lines, Lists(lg_table, lines), li, if_evaluations, bit)
        y == Yield(lines, res.i)
    IN  /\ ~err
        /\ li < Len(lines)
        /\ line \in {If, While} => Len(fed) < MaxFed
        /\ Len(yielded) < MaxYield
        /\ li' = res.i
        /\ if_evaluations' = res.if_evaluations
        /\ err' = res.raised
        /\ yielded' = IF ~res.raised /\ (y = NoneV \/ IsSubtask(lines, y))
                       THEN Append(yielded, y) ELSE yielded
        /\ fed' = IF line \in {If, While} THEN Append(fed, bit) ELSE fed
        /\ if_last' = IF line = If THEN [if_last EXCEPT ![li] = bit]
                       ELSE if_last
        \* i = line_transitions[i][evaluation], not reached when the pop at an
        \* Else raised
        /\ lg_table' = IF line = Else /\ if_evaluations = <<>> THEN lg_table
                        ELSE defaultdict_get(lg_table, li)
        /\ UNCHANGED lines
        /\ UNCHANGED <<gl_vars, cfg_vars, rc_vars, bw_vars, env_vars, gt_vars, ms_vars>>

\* ---------------------------------------------------------------- Env.build_lines
\* build_lines with edge_length - 1 Subtask lines in the block (for edge_length - 2)
build_lines_edge(evaluating_, eval_condition_size_, min_l, max_l, eval_l) ==
    LET n_lines_ == IF evaluating_ THEN {eval_l} ELSE min_l..max_l
        types == IF eval_condition_size_
                 THEN {<<line0>> \o [k \in 1..(edge_length - 1) |-> Subtask]
                          \o <<(IF line0 = While THEN EndWhile ELSE EndIf), Subtask>> :
                       line0 \in {While, If},
                       edge_length \in max_l..(eval_l - 1)}
                 ELSE UNION {get_lines(n, <<>>, NoneV, 0, max_nesting_depth) :
                             n \in n_lines_}
    IN  UNION {{WithIds(ts, ids) : ids \in [1..Len(ts) -> 0..(num_subtasks - 1)]} :
               ts \in types}

\* every list build_lines can return (line types with the Subtask ids drawn)
build_lines(evaluating_, eval_condition_size_, min_l, max_l, eval_l) ==
    LET n_lines_ == IF evaluating_ THEN {eval_l} ELSE min_l..max_l
        types == IF eval_condition_size_
                 THEN {<<line0>> \o [k \in 1..(edge_length - 2) |-> Subtask]
                          \o <<(IF line0 = While THEN EndWhile ELSE EndIf), Subtask>> :
                       line0 \in {While, If},
                       edge_length \in max_l..(eval_l - 1)}
                 ELSE UNION {get_lines(n, <<>>, NoneV, 0, max_nesting_depth) :
                             n \in n_lines_}
    IN  UNION {{WithIds(ts, ids) : ids \in [1..Len(ts) -> 0..(num_subtasks - 1)]} :
               ts \in types}

\* what build_lines can return under configuration c, per (evaluating,
\* eval_condition_size and evaluating)
Programs == [c \in Configs, e \in BOOLEAN, s \in BOOLEAN |->
                build_lines(e, s, c[1], c[2], c[3])]

\* ---------------------------------------------------------------- Env.generator
\* StopsAt without the test for None
StopsAt_nonone(prog, a) == IsSubtask(prog, a)

\* loop condition of next_subtask: a is None or type(lines[a]) is Subtask
StopsAt(prog, a) == a = NoneV \/ IsSubtask(prog, a)

\* resumptions one call of next_subtask may need before it counts as not returning
Fuel(prog) == 3 * Len(prog) + 3

\* SkipToSubtask without the loop: whatever the first send yielded is returned
SkipToSubtask_noloop(prog, tt, st, bit, fuel) == st

\* the while loop of next_subtask: send condition_bit until a Subtask or done
RECURSIVE SkipToSubtask(_, _, _, _, _)
SkipToSubtask(prog, tt, st, bit, fuel) ==
    IF st.raised \/ StopsAt(prog, Yield(prog, st.i)) THEN st
    ELSE IF fuel = 0 THEN [st EXCEPT !.hung = TRUE]
    ELSE LET res == Resume(prog, tt, st.i, st.if_evaluations, bit)
         IN  SkipToSubtask(prog, tt,
                           [i |-> res.i, if_evaluations |-> res.if_evaluations,
                            raised |-> res.raised, hung |-> FALSE],
                           bit, fuel - 1)

\* next_subtask(None): starts line_iterator, which yields its first position
first_subtask(prog, bit) ==
    SkipToSubtask(prog, line_transitions(prog),
                  [i |-> 0, if_evaluations |-> <<>>, raised |-> FALSE, hung |-> FALSE],
                  bit, Fuel(prog))

\* next_subtask sending msg in its loop too (for condition_bit)
next_subtask_stale(prog, i, stack, m, bit) ==
    LET tt == line_transitions(prog)
        res == Resume(prog, tt, i, stack, m)
    IN  SkipToSubtask(prog, tt,
                      [i |-> res.i, if_evaluations |-> res.if_evaluations,
                       raised |-> res.raised, hung |-> FALSE],
                      m, Fuel(prog))

\* next_subtask(): a = line_iterator.send(msg), then the loop with condition_bit
next_subtask(prog, i, stack, m, bit) ==
    LET tt == line_transitions(prog)
        res == Resume(prog, tt, i, stack, m)
    IN  SkipToSubtask(prog, tt,
                      [i |-> res.i, if_evaluations |-> res.if_evaluations,
                       raised |-> res.raised, hung |-> FALSE],
                      bit, Fuel(prog))

\* Terminal with the limit test off by one (> for ==)
Terminal_late(success, evaluating_, step_) ==
    success \/ (~evaluating_ /\ step_ > time_limit)

\* t = success or (not self.evaluating and step == self.time_limit)
Terminal(success, evaluating_, step_) ==
    success \/ (~evaluating_ /\ step_ = time_limit)

\* Reward without the negation of failing
Reward_failing(t_, failing_) == (IF t_ THEN 1 ELSE 0) * (IF failing_ THEN 1 ELSE 0)

\* r = int(t) * int(not failing)
Reward(t_, failing_) == (IF t_ THEN 1 ELSE 0) * (IF ~failing_ THEN 1 ELSE 0)

\* NoOpFails with the count test off by one (> for ==)
NoOpFails_late(evaluating_, no_op_limit_, n) ==
    ~evaluating_ /\ no_op_limit_ # NoneV /\ no_op_limit_ # 0 /\ n > no_op_limit_

\* (not self.evaluating) and self.no_op_limit and n == self.no_op_limit
NoOpFails(evaluating_, no_op_limit_, n) ==
    ~evaluating_ /\ no_op_limit_ # NoneV /\ no_op_limit_ # 0 /\ n = no_op_limit_

\* self.n_lines of __init__: one entry more than the longest program
n_lines == (IF evaluating THEN eval_lines ELSE max_lines) + 1

\* the pointer_delta component of action_space: MultiDiscrete([.., 2 * n_lines])
Deltas == 0..(2 * n_lines - 1)

\* self.line_types.index(ty)
line_types_index(ty) == CHOOSE k \in 0..(Len(line_types) - 1) : line_types[k + 1] = ty

\* get_observation(condition_bit, active, lines) with baseline False: the Obs
\* it builds, nl being self.n_lines
get_observation(bit, active_, prog, nl) ==
    LET padded == prog \o [k \in 1..(nl - Len(prog)) |-> Ctl(Padding)]
    IN  [obs |-> bit,
         lines |-> [k \in 1..Len(padded) |->
                       IF padded[k].type = Subtask THEN padded[k].id
                       ELSE num_subtasks + line_types_index(padded[k].type)],
         active |-> IF active_ = NoneV THEN nl ELSE active_]

\* observation_space.contains(obs) for the Dict of __init__ with baseline False:
\* obs Discrete(2), lines MultiDiscrete([len(line_types) + num_subtasks] * n_lines),
\* active Discrete(n_lines + 1)
observation_space_contains(o, nl) ==
    /\ o.obs \in 0..1
    /\ Len(o.lines) = nl
    /\ \A k \in 1..Len(o.lines) : o.lines[k] \in 0..(Len(line_types) + num_subtasks - 1)
    /\ o.active \in 0..nl

\* Env.__init__: the configuration is fixed, no generator exists yet
Init ==
    /\ \E c \in Configs :
         /\ min_lines = c[1]
         /\ max_lines = c[2]
         /\ eval_lines = c[3]
    /\ evaluating \in BOOLEAN
    /\ eval_condition_size \in BOOLEAN
    /\ terminate_on_failure = TRUE       \* stored by __init__, read nowhere else
    /\ no_op_limit \in {NoneV, MaxNoOpLimit}
    /\ iterator = "None"
    /\ failing = FALSE
    /\ step = 0
    /\ n_noops = 0
    /\ condition_bit = 0
    /\ msg = 0
    /\ prev = 0
    /\ active = NoneV
    /\ t = FALSE
    /\ r = 0
    /\ action = NoneV
    /\ hung = FALSE
    /\ selected = 0
    /\ LGIdle
    /\ RCIdle
    /\ BWIdle
    /\ GLIdle
    /\ GTIdle
    /\ MSIdle

\* generator() without the test of active: whatever next_subtask(None)
\* returned is yielded
generator_start_any(c, evaluating_, ecs) ==
    {ep \in {[prog |-> prog, bit |-> bit, st |-> first_subtask(prog, bit)] :
                 prog \in build_lines(evaluating_, ecs, c[1], c[2], c[3]),
                 bit \in (IF ecs THEN {0} ELSE {0, 1})} :
        ~ep.st.raised /\ ~ep.st.hung}

\* The first yield of generator(): condition_bit and lines are drawn, then
\* next_subtask(None).  When that returns None the generator delegates to a
\* fresh self.generator(), so the episode that yields is one whose first active
\* line is not None.  Every <<lines, condition_bit, interpreter state>> it can
\* start with, per configuration c and (evaluating, eval_condition_size and
\* evaluating):
generator_start(c, evaluating_, ecs) ==
    {ep \in {[prog |-> prog, bit |-> bit, st |-> first_subtask(prog, bit)] :
                 prog \in build_lines(evaluating_, ecs, c[1], c[2], c[3]),
                 bit \in (IF ecs THEN {0} ELSE {0, 1})} :
        ~ep.st.raised /\ ~ep.st.hung /\ Yield(ep.prog, ep.st.i) # NoneV}

Episodes == [c \in Configs, e \in BOOLEAN, s \in BOOLEAN |-> generator_start(c, e, s)]

\* reset(): a new generator runs to its first yield.  A behaviour follows one
\* episode: a later reset() would replace self.iterator by a generator that
\* starts from these same states, no local of the old one surviving.
Reset ==
    \E ep \in Episodes[<<min_lines, max_lines, eval_lines>>, evaluating,
                       eval_condition_size /\ evaluating] :
        /\ iterator = "None"
        /\ iterator' = "generator"
        /\ lines' = ep.prog
        /\ li' = ep.st.i
        /\ if_evaluations' = ep.st.if_evaluations
        /\ err' = FALSE
        /\ hung' = FALSE
        /\ failing' = FALSE
        /\ step' = 0
        /\ n_noops' = 0
        /\ condition_bit' = ep.bit
        /\ msg' = ep.bit
        /\ selected' = 0
        /\ prev' = 0
        /\ active' = Yield(ep.prog, ep.st.i)
        /\ t' = FALSE
        /\ r' = 0
        /\ action' = NoneV
        /\ lg_table' = AsDict(line_transitions(ep.prog))
        /\ UNCHANGED <<cfg_vars, rc_vars, bw_vars, gl_vars, hist_vars, gt_vars, ms_vars>>

\* the locals of generator() at its yield, with the state of line_iterator
generator_locals ==
    [failing |-> failing, step |-> step, n |-> n_noops,
     condition_bit |-> condition_bit, msg |-> msg, prev |-> prev,
     active |-> active, selected |-> selected, t |-> t, r |-> r,
     i |-> li, if_evaluations |-> if_evaluations, raised |-> err, hung |-> hung]

\* selected = (selected + delta - self.n_lines) % self.n_lines
Selected(selected_, delta, nl) == (selected_ + delta - nl) % nl

\* ActionOf with the pair unpacked the other way round
ActionOf_delta(a) == a[2]

\* action, delta = action (baseline is False): the two components of the pair a
ActionOf(a) == a[1]
DeltaOf(a) == a[2]

\* generator() counting a no-op as a step (step += 1 on every action)
generator_send_noop(g, prog, evaluating_, no_op_limit_, nl, a, flip) ==
    LET act == ActionOf(a)
        delta == DeltaOf(a)
        term == Terminal(g.active = NoneV, evaluating_, g.step)
        g1 == [g EXCEPT !.t = term, !.selected = Selected(g.selected, delta, nl)]
    IN  IF act = num_subtasks
        THEN LET fails == g.failing \/ NoOpFails(evaluating_, no_op_limit_, g.n + 1)
             IN  [g1 EXCEPT !.n = g.n + 1, !.failing = fails, !.step = g.step + 1,
                            !.r = Reward(term, fails)]
        ELSE IF g.active # NoneV
        THEN LET fails == g.failing \/ act # At(prog, g.active).id
                 bit == IF g.condition_bit - flip < 0 THEN flip - g.condition_bit
                        ELSE g.condition_bit - flip
                 st == next_subtask(prog, g.i, g.if_evaluations, g.msg, bit)
             IN  [g1 EXCEPT !.failing = fails,
                            !.step = g.step + 1,
                            !.condition_bit = bit,
                            !.i = st.i,
                            !.if_evaluations = st.if_evaluations,
                            !.raised = st.raised,
                            !.hung = st.hung,
                            !.prev = g.active,
                            !.active = IF st.raised \/ st.hung THEN g.active
                                       ELSE Yield(prog, st.i),
                            !.r = Reward(term, fails)]
        ELSE [g1 EXCEPT !.r = Reward(term, g.failing)]

\* generator() advancing the program only when the action matches the active
\* subtask (a mismatch sets failing and nothing else)
generator_send_match(g, prog, evaluating_, no_op_limit_, nl, a, flip) ==
    LET act == ActionOf(a)
        delta == DeltaOf(a)
        term == Terminal(g.active = NoneV, evaluating_, g.step)
        g1 == [g EXCEPT !.t = term, !.selected = Selected(g.selected, delta, nl)]
    IN  IF act = num_subtasks
        THEN LET fails == g.failing \/ NoOpFails(evaluating_, no_op_limit_, g.n + 1)
             IN  [g1 EXCEPT !.n = g.n + 1, !.failing = fails,
                            !.r = Reward(term, fails)]
        ELSE IF g.active # NoneV /\ act # At(prog, g.active).id
        THEN [g1 EXCEPT !.failing = TRUE, !.r = Reward(term, TRUE)]
        ELSE IF g.active # NoneV
        THEN LET fails == g.failing \/ act # At(prog, g.active).id
                 bit == IF g.condition_bit - flip < 0 THEN flip - g.condition_bit
                        ELSE g.condition_bit - flip
                 st == next_subtask(prog, g.i, g.if_evaluations, g.msg, bit)
             IN  [g1 EXCEPT !.failing = fails,
                            !.step = g.step + 1,
                            !.condition_bit = bit,
                            !.i = st.i,
                            !.if_evaluations = st.if_evaluations,
                            !.raised = st.raised,
                            !.hung = st.hung,
                            !.prev = g.active,
                            !.active = IF st.raised \/ st.hung THEN g.active
                                       ELSE Yield(prog, st.i),
                            !.r = Reward(term, fails)]
        ELSE [g1 EXCEPT !.r = Reward(term, g.failing)]

\* iterator.send(a): generator() from the yield that receives the pair a to its
\* next yield.  flip is int(self.random.rand() < self.flip_prob), drawn only
\* when the program advances.  The result is the locals at that yield, t and r
\* being the terminal flag and reward it returns.
generator_send(g, prog, evaluating_, no_op_limit_, nl, a, flip) ==
    LET act == ActionOf(a)
        delta == DeltaOf(a)
        term == Terminal(g.active = NoneV, evaluating_, g.step)
        g1 == [g EXCEPT !.t = term, !.selected = Selected(g.selected, delta, nl)]
    IN  IF act = num_subtasks
        THEN LET fails == g.failing \/ NoOpFails(evaluating_, no_op_limit_, g.n + 1)
             IN  [g1 EXCEPT !.n = g.n + 1, !.failing = fails,
                            !.r = Reward(term, fails)]
        ELSE IF g.active # NoneV
        THEN LET fails == g.failing \/ act # At(prog, g.active).id
                 bit == IF g.condition_bit - flip < 0 THEN flip - g.condition_bit
                        ELSE g.condition_bit - flip
                 st == next_subtask(prog, g.i, g.if_evaluations, g.msg, bit)
             IN  [g1 EXCEPT !.failing = fails,
                            !.step = g.step + 1,
                            !.condition_bit = bit,
                            !.i = st.i,
                            !.if_evaluations = st.if_evaluations,
                            !.raised = st.raised,
                            !.hung = st.hung,
                            !.prev = g.active,
                            !.active = IF st.raised \/ st.hung THEN g.active
                                       ELSE Yield(prog, st.i),
                            !.r = Reward(term, fails)]
        ELSE [g1 EXCEPT !.r = Reward(term, g.failing)]

\* the generator is suspended at the yield with the locals g
AtYield(g) ==
    /\ failing' = g.failing
    /\ step' = g.step
    /\ n_noops' = g.n
    /\ condition_bit' = g.condition_bit
    /\ msg' = g.msg
    /\ prev' = g.prev
    /\ active' = g.active
    /\ selected' = g.selected
    /\ t' = g.t
    /\ r' = g.r
    /\ li' = g.i
    /\ if_evaluations' = g.if_evaluations
    /\ err' = g.raised
    /\ hung' = g.hung

\* step(action) with action == self.num_subtasks: the no-op; the pointer_delta
\* of the action is drawn from D
StepNoOp(D) ==
    /\ iterator = "generator" /\ ~err /\ ~hung
    /\ n_noops < MaxNoOps
    /\ action' = num_subtasks
    /\ \E delta \in D :
         AtYield(generator_send(generator_locals, lines, evaluating, no_op_limit,
                                n_lines, <<num_subtasks, delta>>, 0))
    /\ UNCHANGED <<iterator, lines, cfg_vars, rc_vars, bw_vars, gl_vars, hist_vars, tbl_vars, gt_vars, ms_vars>>

\* step(action) with a subtask id while a subtask is active
StepSubtask(act, D) ==
    /\ iterator = "generator" /\ ~err /\ ~hung
    /\ act \in 0..(num_subtasks - 1)
    /\ active # NoneV
    /\ step < MaxStep
    /\ action' = act
    /\ \E delta \in D, flip \in {0, 1} :
         AtYield(generator_send(generator_locals, lines, evaluating, no_op_limit,
                                n_lines, <<act, delta>>, flip))
    /\ UNCHANGED <<iterator, lines, cfg_vars, rc_vars, bw_vars, gl_vars, hist_vars, tbl_vars, gt_vars, ms_vars>>

\* step(action) with a subtask id after the program completed
StepDone(act, D) ==
    /\ iterator = "generator" /\ ~err /\ ~hung
    /\ act \in 0..(num_subtasks - 1)
    /\ active = NoneV
    /\ action' = act
    /\ \E delta \in D :
         AtYield(generator_send(generator_locals, lines, evaluating, no_op_limit,
                                n_lines, <<act, delta>>, 0))
    /\ UNCHANGED <<iterator, lines, cfg_vars, rc_vars, bw_vars, gl_vars, hist_vars, tbl_vars, gt_vars, ms_vars>>

Step(D) ==
    StepNoOp(D) \/ (\E act \in 0..(num_subtasks - 1) : StepSubtask(act, D) \/ StepDone(act, D))

\* the pointer_delta keyboard_control's action_fn passes: the cursor stays
KeyboardDeltas == {0}

\* the environment driven with any subtask action and the cursor left alone
Next == Reset \/ Step(KeyboardDeltas)

Spec == Init /\ [][Next]_vars

\* the environment of the base configuration driven with any action of
\* action_space, pointer_delta included
InitPtr ==
    /\ Init
    /\ <<min_lines, max_lines, eval_lines>> = PtrConfig
    /\ ~eval_condition_size
    /\ no_op_limit = MaxNoOpLimit

NextPtr == Reset \/ Step(Deltas)

SpecPtr == InitPtr /\ [][NextPtr]_vars

\* no environment exists
EnvIdle ==
    /\ min_lines = MinLines
    /\ max_lines = MaxLines
    /\ eval_lines = EvalLines
    /\ evaluating = FALSE
    /\ eval_condition_size = FALSE
    /\ terminate_on_failure = FALSE
    /\ no_op_limit = NoneV
    /\ iterator = "None"
    /\ failing = FALSE
    /\ step = 0
    /\ n_noops = 0
    /\ condition_bit = 0
    /\ msg = 0
    /\ prev = 0
    /\ active = NoneV
    /\ t = FALSE
    /\ r = 0
    /\ action = NoneV
    /\ hung = FALSE
    /\ selected = 0

\* get_lines alone: the inputs n and max_nesting_depth are drawn, then the
\* recursion runs level by level
InitGL == GLInit /\ LGIdle /\ EnvIdle /\ GTIdle /\ MSIdle /\ RCIdle /\ BWIdle

NextGL == GLEmpty \/ GLClose \/ GLOne \/ GLChoose

SpecGL == InitGL /\ [][NextGL]_vars

\* line_generator alone on a synthesized program, resumed with arbitrary bits
InitLG == LGInit /\ GLIdle /\ EnvIdle /\ GTIdle /\ MSIdle /\ RCIdle /\ BWIdle

NextLG == \E bit \in {0, 1} : LGSend(bit)

SpecLG == InitLG /\ [][NextLG]_vars

\* ---- get_transitions alone, on any list of lines
\* every list of at most MaxGT lines, well formed or not, and the synthesized ones
RECURSIVE TypeSeqs(_)
TypeSeqs(k) ==
    IF k = 0 THEN {<<>>}
    ELSE TypeSeqs(k - 1)
         \cup {Append(ts, ty) : ts \in {x \in TypeSeqs(k - 1) : Len(x) = k - 1},
                                ty \in {If, Else, EndIf, While, EndWhile, Subtask}}

GTPrograms ==
    {WithIds(ts, [k \in 1..Len(ts) |-> 0]) : ts \in TypeSeqs(MaxGT)} \cup LGPrograms

GTInit ==
    /\ lines \in GTPrograms
    /\ li = 0
    /\ if_evaluations = <<>>
    /\ err = FALSE
    /\ yielded = <<>>
    /\ fed = <<>>
    /\ if_last = <<>>
    /\ lg_table = <<>>
    /\ gt_pc = "start"
    /\ gt_table = <<>>

\* list(self.get_transitions(iter(enumerate(lines)), [])): the generator is
\* run to its end, as the for loop of line_generator does
GTCompile ==
    LET res == get_transitions(lines, 0, <<<<>>>>, <<>>)
    IN  /\ gt_pc = "start"
        /\ gt_pc' = "done"
        /\ gt_table' = res.tr
        /\ err' = res.raised
        /\ UNCHANGED <<lines, li, if_evaluations, hist_vars, tbl_vars>>
        /\ UNCHANGED <<gl_vars, cfg_vars, rc_vars, bw_vars, env_vars, ms_vars>>

InitGT == GTInit /\ GLIdle /\ EnvIdle /\ MSIdle /\ RCIdle /\ BWIdle

NextGT == GTCompile

SpecGT == InitGT /\ [][NextGT]_vars

\* ---------------------------------------------------------------- multi_step
\* A Loop block is compiled and interpreted as a While block: Loop false goes
\* past its EndLoop, Loop true enters the body, EndLoop goes back to the Loop.
LoopAsWhile(prog) ==
    [k \in 1..Len(prog) |->
        IF prog[k].type = Loop THEN Ctl(While)
        ELSE IF prog[k].type = EndLoop THEN Ctl(EndWhile)
        ELSE prog[k]]

\* programs of nesting depth 1 in which a While block may be a Loop(c) block
MSPrograms ==
    UNION {
        LET base == WithIds(ts, [k \in 1..Len(ts) |-> 0])
            W == {k \in 1..Len(ts) : ts[k] = While}
            \* at depth 1 an EndWhile closes the last While before it
            opener(k) == CHOOSE w \in W : w < k /\ \A v \in W : v < k => v <= w
        IN  {[k \in 1..Len(ts) |->
                IF ts[k] = While /\ c[k] > 0 THEN Line(Loop, c[k])
                ELSE IF ts[k] = EndWhile /\ c[opener(k)] > 0 THEN Ctl(EndLoop)
                ELSE base[k]] : c \in [W -> 0..max_loops]}
        : ts \in SynthTypes(1, MaxMSLines, 1)}

\* evaluate_line returning the world's evaluation for a Loop (for loops > 0)
evaluate_line_world(line, present, loops_) ==
    IF line.type = Subtask THEN TRUE
    ELSE present

\* evaluate_line(line, object_pos, condition_evaluations, loops); present is
\* any(o == line.id for o, _ in object_pos)
evaluate_line(line, present, loops_) ==
    IF line.type = Loop THEN loops_ > 0
    ELSE IF line.type = Subtask THEN TRUE
    ELSE present

\* the loop of next_subtask from the line l the iterator last yielded (from is
\* the line visited before it, NoneV when l is where the call starts): one
\* pass per line until a Subtask or done is yielded.  g carries the iterator
\* (i, if_evaluations), self.loops and the record of Loop entries;  present
\* gives, per line, whether an object of its id is in the world.
RECURSIVE ms_next_subtask_from(_, _, _, _, _, _, _)
ms_next_subtask_from(prog, tt, g, l, from, present, fuel) ==
    IF fuel = 0 THEN [g EXCEPT !.hung = TRUE]
    ELSE
    LET line == At(prog, l)
        isLoop == line.type = Loop
        \* if type(lines[l]) is Loop: loops = id if loops is None else loops - 1
        counted == IF ~isLoop THEN g.loops
                   ELSE IF g.loops = NoneV THEN line.id
                   ELSE g.loops - 1
        evaluation == evaluate_line(line, present[l], counted)
        res == Resume(prog, tt, g.i, g.if_evaluations, IF evaluation THEN 1 ELSE 0)
        nxt == Yield(prog, res.i)
        fresh == isLoop /\ (from = NoneV \/ At(prog, from).type # EndLoop)
        before == IF fresh THEN 0 ELSE g.entered[l]
        g1 == [g EXCEPT
                 !.i = res.i,
                 !.if_evaluations = res.if_evaluations,
                 !.raised = res.raised,
                 \* if self.loops == 0: self.loops = None
                 !.loops = IF counted = 0 THEN NoneV ELSE counted,
                 !.entered = IF isLoop
                             THEN [g.entered EXCEPT ![l] = IF evaluation THEN before + 1 ELSE before]
                             ELSE g.entered,
                 !.exits = IF isLoop /\ ~evaluation
                           THEN g.exits \cup {<<l, before>>} ELSE g.exits,
                 !.l = nxt]
    IN  IF res.raised \/ nxt = NoneV \/ IsSubtask(prog, nxt) THEN g1
        ELSE ms_next_subtask_from(prog, tt, g1, nxt, l, present, fuel - 1)

\* next_subtask(l) of state_generator
ms_next_subtask(prog, g, l, present) ==
    LET tt == line_transitions(LoopAsWhile(prog))
        first == Yield(prog, 0)             \* line_iterator.send(None)
    IN  IF l # NoneV
        THEN ms_next_subtask_from(prog, tt, g, l, NoneV, present, 2 * Len(prog) + 2)
        ELSE IF first = NoneV \/ IsSubtask(prog, first) THEN [g EXCEPT !.l = first]
        ELSE ms_next_subtask_from(prog, tt, g, first, NoneV, present, 2 * Len(prog) + 2)

\* the locals of state_generator and self.loops, as one value
ms_locals ==
    [i |-> li, if_evaluations |-> if_evaluations, raised |-> err, hung |-> FALSE,
     loops |-> loops, entered |-> loop_entered, exits |-> loop_exits, l |-> ptr]

MSAt(g) ==
    /\ li' = g.i
    /\ if_evaluations' = g.if_evaluations
    /\ err' = g.raised
    /\ loops' = g.loops
    /\ loop_entered' = g.entered
    /\ loop_exits' = g.exits
    /\ ptr' = g.l
    /\ ms_pc' = IF g.hung THEN "hung" ELSE "running"

\* what the world holds: for each line, whether an object of its id is present
Worlds(prog) == [0..(Len(prog) - 1) -> BOOLEAN]

\* state_generator(lines) created, not yet started
MSInit ==
    /\ lines \in MSPrograms
    /\ li = 0
    /\ if_evaluations = <<>>
    /\ err = FALSE
    /\ yielded = <<>>
    /\ fed = <<>>
    /\ if_last = <<>>
    /\ lg_table = <<>>
    /\ ms_pc = "created"
    /\ ptr = NoneV
    /\ loops = NoneV
    /\ ms_steps = 0
    /\ loop_entered = [k \in 0..(Len(lines) - 1) |-> 0]
    /\ loop_exits = {}

\* self.loops = None ... prev, ptr = 0, next_subtask(None)
MSStart ==
    /\ ms_pc = "created"
    /\ \E present \in Worlds(lines) :
          MSAt(ms_next_subtask(lines, ms_locals, NoneV, present))
    /\ ms_steps' = ms_steps + 1
    /\ UNCHANGED <<lines, hist_vars, tbl_vars, gl_vars, cfg_vars, rc_vars, bw_vars, env_vars, gt_vars>>

\* the agent stands on the object and names the correct subtask:
\* prev, ptr = ptr, next_subtask(ptr)
MSNextSubtask ==
    /\ ms_pc = "running"
    /\ ~err
    /\ ptr # NoneV
    /\ ms_steps < MaxMSSteps
    /\ \E present \in Worlds(lines) :
          MSAt(ms_next_subtask(lines, ms_locals, ptr, present))
    /\ ms_steps' = ms_steps + 1
    /\ UNCHANGED <<lines, hist_vars, tbl_vars, gl_vars, cfg_vars, rc_vars, bw_vars, env_vars, gt_vars>>

\* subtask is impossible: prev, ptr = ptr, None
MSImpossible ==
    /\ ms_pc = "running"
    /\ ~err
    /\ ptr # NoneV
    /\ ptr' = NoneV
    /\ UNCHANGED <<ms_pc, loops, ms_steps, loop_entered, loop_exits>>
    /\ UNCHANGED <<lg_vars, hist_vars, tbl_vars, gl_vars, cfg_vars, rc_vars, bw_vars, env_vars, gt_vars>>

InitMS == MSInit /\ GLIdle /\ EnvIdle /\ GTIdle /\ RCIdle /\ BWIdle

NextMS == MSStart \/ MSNextSubtask \/ MSImpossible

SpecMS == InitMS /\ [][NextMS]_vars

\* ================================================================ properties
\* ---- block structure of a program, read off the line types alone
\* index of the EndIf/EndWhile closing the block whose If, While or Else is at i
RECURSIVE CloserFrom(_, _, _)
CloserFrom(prog, j, depth) ==
    IF j >= Len(prog) THEN NoneV
    ELSE IF At(prog, j).type \in {If, While} THEN CloserFrom(prog, j + 1, depth + 1)
    ELSE IF At(prog, j).type \in {EndIf, EndWhile}
         THEN (IF depth = 0 THEN j ELSE CloserFrom(prog, j + 1, depth - 1))
    ELSE CloserFrom(prog, j + 1, depth)

MatchClose(prog, i) == CloserFrom(prog, i + 1, 0)

\* index of the Else of the If at i, NoneV when that If has none
RECURSIVE ElseFrom(_, _, _)
ElseFrom(prog, j, depth) ==
    IF j >= Len(prog) THEN NoneV
    ELSE IF At(prog, j).type \in {If, While} THEN ElseFrom(prog, j + 1, depth + 1)
    ELSE IF At(prog, j).type \in {EndIf, EndWhile}
         THEN (IF depth = 0 THEN NoneV ELSE ElseFrom(prog, j + 1, depth - 1))
    ELSE IF At(prog, j).type = Else /\ depth = 0 THEN j
    ELSE ElseFrom(prog, j + 1, depth)

ElseOf(prog, i) == ElseFrom(prog, i + 1, 0)

\* index of the If/While opening the block whose Else, EndIf or EndWhile is at j
RECURSIVE OpenerFrom(_, _, _)
OpenerFrom(prog, j, depth) ==
    IF j < 0 THEN NoneV
    ELSE IF At(prog, j).type \in {EndIf, EndWhile} THEN OpenerFrom(prog, j - 1, depth + 1)
    ELSE IF At(prog, j).type \in {If, While}
         THEN (IF depth = 0 THEN j ELSE OpenerFrom(prog, j - 1, depth - 1))
    ELSE OpenerFrom(prog, j - 1, depth)

OpenerOf(prog, j) == OpenerFrom(prog, j - 1, 0)

IsPrefix(s1, s2) == Len(s1) <= Len(s2) /\ SubSeq(s2, 1, Len(s1)) = s1

\* ---- reference interpreter: runs the program as a structured program, taking
\* one bit of bits at each If and While it evaluates; returns the Subtask
\* indices it reaches (and NoneV on completion) until it needs a bit it lacks
RECURSIVE RefRun(_, _, _, _)
RefRun(prog, pc, bits, out) ==
    IF pc >= Len(prog) THEN Append(out, NoneV)
    ELSE LET ty == At(prog, pc).type
         IN  IF ty = Subtask THEN RefRun(prog, pc + 1, bits, Append(out, pc))
             ELSE IF ty = If
             THEN (IF bits = <<>> THEN out
                   ELSE IF Head(bits) = 1 THEN RefRun(prog, pc + 1, Tail(bits), out)
                   ELSE IF ElseOf(prog, pc) # NoneV
                        THEN RefRun(prog, ElseOf(prog, pc) + 1, Tail(bits), out)
                   ELSE RefRun(prog, MatchClose(prog, pc) + 1, Tail(bits), out))
             ELSE IF ty = Else           \* end of the If body: skip the Else body
             THEN RefRun(prog, MatchClose(prog, pc) + 1, bits, out)
             ELSE IF ty = While
             THEN (IF bits = <<>> THEN out
                   ELSE IF Head(bits) = 1 THEN RefRun(prog, pc + 1, Tail(bits), out)
                   ELSE RefRun(prog, MatchClose(prog, pc) + 1, Tail(bits), out))
             ELSE IF ty = EndWhile THEN RefRun(prog, OpenerOf(prog, pc), bits, out)
             ELSE RefRun(prog, pc + 1, bits, out)

\* the interpreter is done or waits at an If/While for a bit not yet fed
AwaitsBit == li >= Len(lines) \/ At(lines, li).type \in {If, While}

\* C1: for every synthesizable program and every sequence of condition bits fed
\* at the If/While lines, the Subtask indices line_generator yields (up to done)
\* are those of the reference interpreter fed the same bits.
C1_RefinesReference ==
    LET ref == RefRun(lines, 0, fed, <<>>)
    IN  /\ IsPrefix(yielded, ref)
        /\ (AwaitsBit /\ Len(yielded) < MaxYield) => yielded = ref

\* C2: a resumption at an Else line enters the Else body iff the most recent
\* evaluation of the If of the same block was false, and otherwise jumps to the
\* matching EndIf.
C2_ElseIffIfFalse ==
    [][(li < Len(lines) /\ At(lines, li).type = Else /\ ~err')
          => (IF if_last[OpenerOf(lines, li)] = 0
              THEN li' = li + 1
              ELSE li' = MatchClose(lines, li))]_vars

\* ---- well-nestedness of a result of get_lines, by a stack of open blocks
RECURSIVE NestedFrom(_, _, _, _)
NestedFrom(types, k, open, d) ==
    IF k > Len(types) THEN open = <<>>
    ELSE LET x == types[k]
         IN  IF x \in {If, While}
             THEN (d = NoneV \/ Len(open) + 1 <= d)
                  /\ NestedFrom(types, k + 1, Append(open, x), d)
             ELSE IF x = Else
             THEN open # <<>> /\ Last(open) = If
                  /\ NestedFrom(types, k + 1, Append(Front(open), Else), d)
             ELSE IF x = EndIf
             THEN open # <<>> /\ Last(open) \in {If, Else}
                  /\ NestedFrom(types, k + 1, Front(open), d)
             ELSE IF x = EndWhile
             THEN open # <<>> /\ Last(open) = While
                  /\ NestedFrom(types, k + 1, Front(open), d)
             ELSE NestedFrom(types, k + 1, open, d)

\* C3: every program get_lines(n, [], max_nesting_depth=d) returns is well
\* nested (each If closed by one EndIf with at most one Else between, each While
\* by one EndWhile, no crossing, no stray closer or Else) and never nests
\* deeper than d.
C3_WellNested ==
    gl_pc = "done" => NestedFrom(gl_lines, 1, <<>>, gl_max_nesting_depth)

\* a returned program of MaxN lines at the full depth, with an Else and a While
C3_Witness ==
    /\ gl_pc = "done"
    /\ gl_n0 = MaxN
    /\ Len(gl_lines) = MaxN
    /\ gl_max_nesting_depth = 2
    /\ get_nesting_depth(gl_lines) = 2
    /\ Else \in Range(gl_lines)
    /\ While \in Range(gl_lines)

\* ---- the step loop
SubtaskIds == 0..(num_subtasks - 1)

\* C4: every reward is 0 or 1, and reward 1 comes only with terminal=True when
\* the interpreter has reached done and failing is unset (a terminal step by the
\* time limit, or after a failure, has reward 0).
C4_RewardOnlyOnSuccess ==
    /\ r \in {0, 1}
    /\ r = 1 => (t /\ active = NoneV /\ ~failing)

\* C5: when every action so far was the id of the active subtask (no failure,
\* no no-op) and the interpreter has reached done, the next step call reports
\* terminal=True with reward 1.
C5_CorrectAnswersRewarded ==
    [][(iterator = "generator" /\ active = NoneV /\ ~failing /\ n_noops = 0
          /\ action' \in SubtaskIds)
         => (t' /\ r' = 1)]_vars

\* an episode in evaluation mode completed by three correct answers
C5_Witness ==
    /\ evaluating /\ t /\ r = 1
    /\ active = NoneV /\ ~failing /\ n_noops = 0
    /\ step = 3 /\ action \in SubtaskIds

\* C6: with terminate_on_failure set, a first action that is a subtask id other
\* than the active subtask's sets failing and that step reports terminal=True
\* with reward 0.
C6_FirstWrongTerminates ==
    [][(terminate_on_failure /\ iterator = "generator" /\ action = NoneV
          /\ active # NoneV /\ action' \in SubtaskIds
          /\ action' # At(lines, active).id)
         => (failing' /\ t' /\ r' = 0)]_vars

\* C7 as claimed: in every configuration with a no_op_limit, training or
\* evaluation, no_op_limit no-ops set failing, a failing episode ends with
\* reward 0, and a no-op before the limit never sets failing.
C7_NoOpLimitFails ==
    /\ []((no_op_limit # NoneV /\ n_noops >= no_op_limit) => failing)
    /\ []((failing /\ t) => r = 0)
    /\ [][(action' = num_subtasks /\ no_op_limit # NoneV /\ n_noops' < no_op_limit)
            => failing' = failing]_vars

\* C7 amended: the no-op limit applies in training mode only; in evaluation
\* mode a no-op never sets failing.
C7_NoOpLimitFailsTraining ==
    /\ []((~evaluating /\ no_op_limit # NoneV /\ n_noops >= no_op_limit) => failing)
    /\ []((failing /\ t) => r = 0)
    /\ [][(action' = num_subtasks /\ no_op_limit # NoneV /\ n_noops' < no_op_limit)
            => failing' = failing]_vars
    /\ [][(action' = num_subtasks /\ evaluating) => failing' = failing]_vars

\* a training episode that fails by its second no-op alone
C7_Witness ==
    /\ ~evaluating /\ no_op_limit = 2 /\ n_noops = 2
    /\ step = 0 /\ failing /\ action = num_subtasks

C9_ActiveIsSubtaskOrDone ==
    iterator = "generator"
        => \/ active = NoneV
           \/ (active \in 0..(Len(lines) - 1) /\ At(lines, active).type = Subtask)

\* the pointer came back to a Subtask through an EndWhile and its While
C9_Witness ==
    /\ iterator = "generator" /\ step >= 1
    /\ active # NoneV /\ prev >= active
    /\ At(lines, 0).type = While
    /\ At(lines, active).type = Subtask

\* C10: the interpreter is never resumed once it yielded done: no exception
\* escapes it, and a step call made when active is None leaves it untouched.
C10_NoResumeAfterDone ==
    /\ [](~err)
    /\ [][(iterator = "generator" /\ active = NoneV /\ action' # NoneV)
            => UNCHANGED <<li, if_evaluations>>]_vars

\* two step calls were made after the program completed
C10_Witness ==
    /\ iterator = "generator" /\ active = NoneV /\ li = Len(lines)
    /\ t /\ action = num_subtasks /\ n_noops = 2 /\ ~err

\* ---- observations
\* the observation the generator yields in the current state
Observation == get_observation(condition_bit, active, lines, n_lines)

PaddingCode == num_subtasks + 6

\* C11: every observation has a lines field of n_lines entries, the program's
\* lines followed by at least one Padding entry; its active field is a line
\* index below the program length, or n_lines when done; its obs field is 0 or
\* 1; and in training mode it lies in observation_space.
C11_ObservationShape ==
    iterator = "generator" =>
        LET o == Observation
        IN  /\ Len(o.lines) = n_lines
            /\ Len(lines) < n_lines
            /\ \A k \in 1..Len(o.lines) : (o.lines[k] = PaddingCode) <=> (k > Len(lines))
            /\ o.lines[Len(o.lines)] = PaddingCode
            /\ IF active = NoneV THEN o.active = n_lines
               ELSE o.active \in 0..(Len(lines) - 1)
            /\ o.obs \in {0, 1}
            /\ ~evaluating => observation_space_contains(o, n_lines)

\* ---- the pointer_delta component of the action
\* the locals g without the rendering cursor
Exec(g) == [g EXCEPT !.selected = 0]

\* C12: the pointer_delta of the action does not influence execution.  Stepwise
\* form: from every reachable state, for every subtask id or no-op and every
\* random draw, the step leads to the same active pointer, condition bit,
\* failure flag, reward, terminal flag (and every other local but the cursor)
\* whatever the pointer_delta and wherever the cursor stands; so two runs that
\* differ only in their pointer_delta values agree in these at every step.
C12_PointerDeltaIgnored ==
    (iterator = "generator" /\ ~err /\ ~hung) =>
        \A act \in 0..num_subtasks, flip \in {0, 1} :
            LET ref == Exec(generator_send(generator_locals, lines, evaluating,
                                           no_op_limit, n_lines, <<act, 0>>, flip))
            IN  \A delta \in Deltas, sel \in 0..(n_lines - 1) :
                    Exec(generator_send([generator_locals EXCEPT !.selected = sel],
                                        lines, evaluating, no_op_limit, n_lines,
                                        <<act, delta>>, flip)) = ref

\* a run whose cursor was moved while two subtasks were answered
C12_Witness ==
    /\ iterator = "generator" /\ step = 2 /\ selected = 2
    /\ action \in SubtaskIds /\ active # NoneV

\* ---- length of a synthesized program
\* C14: get_lines(n, active_conditions=[]) returns exactly n lines when n >= 1
\* and the empty sequence when n <= 0, whatever the random choices; for n = 1
\* the result is the single line Subtask.
C14_GetLinesLength ==
    gl_pc = "done" =>
        /\ Len(gl_lines) = (IF gl_n0 >= 1 THEN gl_n0 ELSE 0)
        /\ gl_n0 = 1 => gl_lines = <<Subtask>>

\* a result of MaxN lines whose last two lines close two open blocks
C14_Witness ==
    /\ gl_pc = "done" /\ gl_n0 = MaxN /\ Len(gl_lines) = MaxN
    /\ gl_lines[MaxN] \in {EndIf, EndWhile}
    /\ gl_lines[MaxN - 1] \in {EndIf, EndWhile}

\* ---- length of a built program
\* the programs build_lines can return in the current configuration
BuiltPrograms ==
    Programs[<<min_lines, max_lines, eval_lines>>, evaluating,
             eval_condition_size /\ evaluating]

Max(a, b) == IF a >= b THEN a ELSE b

RECURSIVE MalformedFrom(_, _, _)
MalformedFrom(prog, k, open) ==
    IF k > Len(prog) THEN open # <<>>
    ELSE LET x == prog[k].type
         IN  IF x \in {If, While} THEN MalformedFrom(prog, k + 1, Append(open, x))
             ELSE IF x \in {EndIf, EndWhile}
             THEN \/ open = <<>>
                  \/ pairs(Last(open)) # x
                  \/ MalformedFrom(prog, k + 1, Front(open))
             ELSE MalformedFrom(prog, k + 1, open)

Malformed(prog) == MalformedFrom(prog, 1, <<>>)

\* C16: for a malformed program get_transitions fails with an error; it never
\* returns a table for it.
C16_MalformedFails ==
    (gt_pc = "done" /\ Malformed(lines)) => err

\* ---- scenarios
\* the line types of the program being interpreted
TypesOf(prog) == [k \in 1..Len(prog) |-> prog[k].type]

IfElseProgram == <<If, Subtask, Else, Subtask, EndIf>>

\* C17: for the program [If, Subtask, Else, Subtask, EndIf], when the bit
\* evaluated at the If is true the Subtask indices yielded are exactly 1 and
\* then done; when it is false they are exactly 3 and then done.
C17_IfElseScenario ==
    TypesOf(lines) = IfElseProgram =>
        /\ ~err
        /\ Len(fed) <= 1
        /\ fed = <<>> => yielded = <<>>
        /\ fed = <<1>> => /\ IsPrefix(yielded, <<1, NoneV>>)
                          /\ li >= 1 => yielded # <<>>
                          /\ li >= Len(lines) => yielded = <<1, NoneV>>
        /\ fed = <<0>> => /\ IsPrefix(yielded, <<3, NoneV>>)
                          /\ li >= 3 => yielded # <<>>
                          /\ li >= Len(lines) => yielded = <<3, NoneV>>

\* the run with the bit false at the If has entered the Else body and is done
C17_Witness ==
    /\ TypesOf(lines) = IfElseProgram
    /\ li >= Len(lines)
    /\ fed = <<0>>
    /\ yielded = <<3, NoneV>>

WhileProgram == <<While, Subtask, EndWhile>>

\* C18: for the program [While, Subtask, EndWhile] with the bits true, true,
\* false evaluated at the While on its successive visits, the interpreter
\* yields Subtask index 1 twice and then done, and has evaluated exactly those
\* three bits when it is done.
C18_WhileScenario ==
    (TypesOf(lines) = WhileProgram /\ IsPrefix(fed, <<1, 1, 0>>)) =>
        /\ ~err
        /\ IsPrefix(yielded, <<1, 1, NoneV>>)
        /\ Len(yielded) = Len(fed)
        /\ (li >= Len(lines)) <=> (fed = <<1, 1, 0>>)
        /\ li >= Len(lines) => yielded = <<1, 1, NoneV>>

\* the loop has run twice and the third bit has ended it
C18_Witness ==
    /\ TypesOf(lines) = WhileProgram
    /\ fed = <<1, 1, 0>>
    /\ yielded = <<1, 1, NoneV>>
    /\ li = Len(lines)

\* ---- While blocks
\* the 0-based indices of the While lines of prog
Whiles(prog) == {w \in 0..(Len(prog) - 1) : At(prog, w).type = While}

\* C19: in every synthesized program, a resumption at a While with the bit
\* false moves to the line after its matching EndWhile (done when that is past
\* the last line), and a line of the body of a While (its EndWhile included)
\* is reached from outside the body only by a resumption at that While with
\* the bit true: a While whose evaluations are all false yields no Subtask of
\* its body.
C19_FalseWhileSkipped ==
    [][\A w \in Whiles(lines) :
         LET f == MatchClose(lines, w)
             inside(x) == x > w /\ x <= f
         IN  /\ f # NoneV
             /\ ~err'
             /\ (li = w /\ fed' = Append(fed, 0)) =>
                    /\ li' = f + 1
                    /\ yielded' = yielded
                       \/ yielded' = Append(yielded, Yield(lines, f + 1))
                    /\ Len(yielded') > Len(yielded) => ~inside(Last(yielded'))
             /\ (inside(li') /\ ~inside(li)) => (li = w /\ fed' = Append(fed, 1))
             /\ (Len(yielded') > Len(yielded) /\ inside(Last(yielded')))
                    => (inside(li) \/ (li = w /\ fed' = Append(fed, 1)))]_vars

\* a While that is not the first line and whose body starts with a Subtask has
\* been evaluated false and skipped, with a line after its EndWhile to go to,
\* and nothing of its body was yielded
C19_Witness ==
    \E w \in Whiles(lines) :
        /\ w > 0
        /\ At(lines, w + 1).type = Subtask
        /\ MatchClose(lines, w) + 1 < Len(lines)
        /\ li = MatchClose(lines, w) + 1
        /\ fed # <<>>
        /\ Last(fed) = 0
        /\ \A k \in 1..Len(yielded) : ~(yielded[k] > w /\ yielded[k] <= MatchClose(lines, w))

\* ---- Loop blocks of the multi-step variant
Loops(prog) == {h \in 0..(Len(prog) - 1) : At(prog, h).type = Loop}

\* the Loop whose body holds line j, NoneV when j is in no Loop body
LoopAround(prog, j) ==
    LET o == IF j >= Len(prog) THEN NoneV ELSE OpenerOf(LoopAsWhile(prog), j)
    IN  IF o # NoneV /\ At(prog, o).type = Loop THEN o ELSE NoneV

WellNested(prog) == NestedFrom(TypesOf(prog), 1, <<>>, NoneV)

\* the successors the compiled table gives line i, in the order yielded
Successors(i) == TargetsOf(gt_table, i)

Indices(prog) == 0..(Len(prog) - 1)

\* C21: in the table of a well-nested program, an If at i with matching EndIf
\* at f has false-successor its Else when it has one and f otherwise, and
\* true-successor i + 1; an Else at e has false-successor f and true-successor
\* e + 1, whatever is nested in the bodies.
C21_IfElseSuccessors ==
    (gt_pc = "done" /\ WellNested(lines)) =>
        \A i \in Indices(lines) :
            LET f == MatchClose(lines, i)
                e == ElseOf(lines, i)
            IN  /\ At(lines, i).type = If =>
                    /\ Len(Successors(i)) >= 2
                    /\ Successors(i)[1] = (IF e # NoneV THEN e ELSE f)
                    /\ Successors(i)[2] = i + 1
                /\ At(lines, i).type = Else =>
                    /\ Len(Successors(i)) >= 2
                    /\ Successors(i)[1] = f
                    /\ Successors(i)[2] = i + 1

\* a compiled program with an If that has an Else and a block nested in its
\* If body
C21_Witness ==
    /\ gt_pc = "done"
    /\ WellNested(lines)
    /\ \E i \in Indices(lines) :
          /\ At(lines, i).type = If
          /\ ElseOf(lines, i) # NoneV
          /\ \E j \in (i + 1)..(ElseOf(lines, i) - 1) : At(lines, j).type \in {If, While}

\* C22: in the table of a well-nested program, a While at w with matching
\* EndWhile at f has false-successor f + 1 and true-successor w + 1, and both
\* successors of f are w, whatever is nested in the body.
C22_WhileSuccessors ==
    (gt_pc = "done" /\ WellNested(lines)) =>
        \A w \in Whiles(lines) :
            LET f == MatchClose(lines, w)
            IN  /\ Len(Successors(w)) >= 2
                /\ Successors(w)[1] = f + 1
                /\ Successors(w)[2] = w + 1
                /\ Len(Successors(f)) >= 2
                /\ Successors(f)[1] = w
                /\ Successors(f)[2] = w

\* a compiled program with a While that has a block nested in its body and
\* whose EndWhile is the last line, so that its false-successor is done
C22_Witness ==
    /\ gt_pc = "done"
    /\ WellNested(lines)
    /\ \E w \in Whiles(lines) :
          /\ MatchClose(lines, w) + 1 = Len(lines)
          /\ \E j \in (w + 1)..(MatchClose(lines, w) - 1) : At(lines, j).type \in {If, While}

\* C23: the table of a well-nested program is total: every index 0..len-1
\* has exactly two successors, each in 0..len, and a Subtask or EndIf at i has
\* both equal to i + 1; so line_transitions[i][evaluation] is defined wherever
\* the interpreter can be.
C23_TableTotal ==
    (gt_pc = "done" /\ WellNested(lines)) =>
        /\ ~err
        /\ \A k \in 1..Len(gt_table) : gt_table[k][1] \in Indices(lines)
        /\ \A i \in Indices(lines) :
              /\ Len(Successors(i)) = 2
              /\ Successors(i)[1] \in 0..Len(lines)
              /\ Successors(i)[2] \in 0..Len(lines)
              /\ At(lines, i).type \in {Subtask, EndIf} => Successors(i) = <<i + 1, i + 1>>

\* a compiled program of depth 2 holding every kind of line
C23_Witness ==
    /\ gt_pc = "done"
    /\ WellNested(lines)
    /\ get_nesting_depth(TypesOf(lines)) = 2
    /\ Range(TypesOf(lines)) = {If, Else, EndIf, While, EndWhile, Subtask}

\* ---- get_lines near the end of the budget
\* C24: at every step of get_lines with n - len(active_conditions) < 2, the
\* lines it adds are Subtask, EndIf or EndWhile: no If, While or Else.
C24_NoOpenerOrElseAtEnd ==
    [][(gl_pc = "run" /\ gl_n - Len(gl_active_conditions) < 2) =>
          \A k \in (Len(gl_lines) + 1)..Len(gl_lines') :
              gl_lines'[k] \in {Subtask, EndIf, EndWhile}]_vars

\* ---- the if-evaluation stack
\* the If lines whose block is open when the interpreter is suspended at i:
\* evaluated, and neither their Else reached and left nor their EndIf passed
OpenIfs(prog, i) ==
    {j \in Indices(prog) :
        /\ At(prog, j).type = If
        /\ j < i
        /\ i <= (IF ElseOf(prog, j) # NoneV THEN ElseOf(prog, j) ELSE MatchClose(prog, j))}

\* C25: at every suspension point of line_generator, if_evaluations holds one
\* entry per open If block and no other, so it is never longer than the
\* program's nesting depth.
C25_StackHoldsOpenIfs ==
    ~err =>
        /\ Len(if_evaluations) = Cardinality(OpenIfs(lines, li))
        /\ Len(if_evaluations) <= get_nesting_depth(TypesOf(lines))

\* ---- the table while the interpreter runs
\* C26: the table of a running interpreter is never modified: after any
\* number of resumptions it is the table compiled from the program, every
\* index of the program keeping its two successors.
C26_TableImmutable ==
    (lines # <<>> /\ ~err) =>
        /\ lg_table = AsDict(line_transitions(lines))
        /\ DOMAIN lg_table = Indices(lines)
        /\ \A i \in Indices(lines) : lg_table[i] = TargetsOf(get_transitions(lines, 0, <<<<>>>>, <<>>).tr, i)

\* the interpreter has gone round a While twice and read the same entries again
C26_Witness ==
    /\ lg_table # <<>>
    /\ Len(fed) = 3
    /\ li < Len(lines)
    /\ At(lines, li).type = While
    /\ Len(yielded) >= 2

\* ---- the step that completes the program and the one after it
Running == iterator = "generator" /\ ~err /\ ~hung

\* the step in progress makes the interpreter reach done
Completes == Running /\ active # NoneV /\ active' = NoneV /\ ~err' /\ ~hung'

\* C27: the step whose action makes the interpreter reach done returns
\* terminal False and reward 0; the step call after it returns terminal True,
\* whatever its action.
C27_TerminalOneStepLate ==
    [][/\ Completes => (~t' /\ r' = 0)
       /\ (Running /\ active = NoneV) => t']_vars

\* C27 as the code has it: the completing step returns terminal exactly when,
\* in training mode, the step counter stood at time_limit before it, and the
\* reward is then 1 unless the episode is failing; every step call made after
\* completion returns terminal True and reward 1 unless the episode is failing
\* after that call's action, and the program stays done.
C27_TerminalAfterCompletion ==
    [][/\ Completes =>
            /\ t' = (~evaluating /\ step = time_limit)
            /\ r' = (IF t' /\ ~failing' THEN 1 ELSE 0)
       /\ (Running /\ active = NoneV) =>
            /\ t'
            /\ r' = (IF failing' THEN 0 ELSE 1)
            /\ active' = NoneV
            /\ step' = step]_vars

\* in evaluation mode the program completed and the call after it, a no-op,
\* returned terminal with reward 1
C27_Witness ==
    /\ Running
    /\ evaluating
    /\ active = NoneV
    /\ action = num_subtasks
    /\ t
    /\ r = 1

\* ---- what a subtask action changes
\* the locals at the next yield apart from the failure flag and the reward
\* computed from it
Advance(g) == [g EXCEPT !.failing = FALSE, !.r = 0]

\* the locals at the yield after step((act, 0)) with the draw flip
Sent(act, flip) ==
    generator_send(generator_locals, lines, evaluating, no_op_limit, n_lines,
                   <<act, 0>>, flip)

C29_NoOpFrame ==
    [][/\ (Running /\ action' = num_subtasks) =>
            /\ active' = active
            /\ prev' = prev
            /\ condition_bit' = condition_bit
            /\ step' = step
            /\ li' = li
            /\ if_evaluations' = if_evaluations
            /\ lg_table' = lg_table
            /\ ~err' /\ ~hung'
            /\ n_noops' = n_noops + 1
            /\ failing' = (failing \/ (~evaluating /\ no_op_limit # NoneV
                                        /\ n_noops' = no_op_limit))
            /\ (active # NoneV /\ step # time_limit) => ~t'
       /\ Running => n_noops' >= n_noops]_vars

\* two no-ops were taken after a subtask step, with a subtask still active
C29_Witness ==
    /\ Running
    /\ action = num_subtasks
    /\ n_noops = 2
    /\ step = 1
    /\ active # NoneV
    /\ ~t

\* ---- termination of next_subtask
\* the last line of the body opened at i: the line before its Else when it
\* has one, before its closer otherwise
BodyEnd(prog, i) ==
    (IF ElseOf(prog, i) # NoneV THEN ElseOf(prog, i) ELSE MatchClose(prog, i)) - 1

\* every If body and While body holds a Subtask line
BodiesHoldSubtask(prog) ==
    \A i \in Indices(prog) :
        At(prog, i).type \in {If, While} =>
            \E j \in (i + 1)..BodyEnd(prog, i) : At(prog, j).type = Subtask

\* C30: on every synthesized program every If body and While body holds a
\* Subtask, and every call of next_subtask, the first one and any later one
\* made with the interpreter at a Subtask line, returns within Fuel(lines)
\* resumptions, without error, a Subtask index or done, for either value of
\* condition_bit held through the call.
C30_NextSubtaskTerminates ==
    /\ BodiesHoldSubtask(lines)
    /\ \A bit \in {0, 1} :
          LET st == first_subtask(lines, bit)
          IN  lines # <<>> => (~st.hung /\ ~st.raised /\ StopsAt(lines, Yield(lines, st.i)))
    /\ (~err /\ li < Len(lines) /\ IsSubtask(lines, li)) =>
          \A bit \in {0, 1}, m \in {0, 1} :
              LET st == next_subtask(lines, li, if_evaluations, m, bit)
              IN  ~st.hung /\ ~st.raised /\ StopsAt(lines, Yield(lines, st.i))

\* the interpreter is at the last Subtask of the body of a While nested in
\* another block, entries on its stack: the next call goes round the While
C30_Witness ==
    /\ ~err
    /\ li + 1 < Len(lines)
    /\ IsSubtask(lines, li)
    /\ At(lines, li + 1).type = EndWhile
    /\ OpenerOf(lines, li + 1) > 0
    /\ if_evaluations # <<>>

\* ---- the bit that decides the branches
\* the interpreter after advancing from position i with stack, every
\* resumption being sent bit
AdvancedWith(prog, i, stack, bit) ==
    LET tt == Lists(AsDict(line_transitions(prog)), prog)
        res == Resume(prog, tt, i, stack, bit)
    IN  SkipToSubtask(prog, tt,
                      [i |-> res.i, if_evaluations |-> res.if_evaluations,
                       raised |-> res.raised, hung |-> FALSE],
                      bit, Fuel(prog))

\* C31: in a step that advances the program, msg (the bit bound as the default
\* argument of next_subtask when the episode started) is sent with the
\* interpreter on the active Subtask line, whose two successors are the same,
\* and the interpreter ends where it would had the bit redrawn in this step
\* been sent at every resumption: no If or While is decided by msg.
C31_StaleBitNeverDecides ==
    [][(Running /\ active # NoneV /\ action' \in SubtaskIds) =>
          LET reached == AdvancedWith(lines, li, if_evaluations, condition_bit')
          IN  /\ li = active
              /\ IsSubtask(lines, li)
              /\ Lists(lg_table, lines)[li] = <<li + 1, li + 1>>
              /\ msg' = msg
              /\ li' = reached.i
              /\ if_evaluations' = reached.if_evaluations
              /\ err' = reached.raised
              /\ hung' = reached.hung]_vars

\* a step has advanced through an If or While with a redrawn bit that differs
\* from the bit bound when the episode started
C31_Witness ==
    /\ Running
    /\ step >= 1
    /\ msg # condition_bit
    /\ prev + 1 < Len(lines)
    /\ At(lines, prev + 1).type \in {If, While, EndWhile}
    /\ action \in SubtaskIds

\* ---- the first observation
\* the generator is at its first yield: reset() has returned, no step was made
FirstYield == Running /\ action = NoneV

\* the programs build_lines can return in the current configuration
CurrentPrograms ==
    Programs[<<min_lines, max_lines, eval_lines>>, evaluating,
             eval_condition_size /\ evaluating]

\* C32: at the first yield of every episode active is the index of a Subtask
\* line, never done: it is the line next_subtask(None) reaches in the program
\* and with the condition bit the episode runs with, terminal is False and the
\* reward 0; a program that completes without reaching a Subtask is never the
\* one the episode runs.
C32_FirstActiveIsSubtask ==
    FirstYield =>
        /\ active # NoneV
        /\ IsSubtask(lines, active)
        /\ lines \in CurrentPrograms
        /\ active = Yield(lines, first_subtask(lines, condition_bit).i)
        /\ li = active
        /\ step = 0 /\ n_noops = 0 /\ ~failing /\ ~t /\ r = 0

\* an episode starts on a program whose first block the initial bit skips, in
\* a configuration where some program built with that bit completes without
\* reaching a Subtask
C32_Witness ==
    /\ FirstYield
    /\ At(lines, 0).type \in {If, While}
    /\ condition_bit = 0
    /\ active > 1
    /\ \E prog \in CurrentPrograms : Yield(prog, first_subtask(prog, 0).i) = NoneV

(***************************************************************************)
(* road_closures/env.py: a walk over a shuffled lattice of n_states nodes, *)
(* some of them closed.  Arrays are functions over 0..n-1; the boolean     *)
(* arrays transitions and open are kept as BOOLEAN and as 0/1.             *)
(***************************************************************************)
MaxRCStates == 4
MaxRCTimeLimit == 2
MaxRCT == 4

\* the values of n_states __init__ accepts (assert n_states % 2 == 0)
RCSizes == {n \in 2..MaxRCStates : n % 2 = 0}

\* np.abs(i - j) < 2 over np.indices((n, n))
band(n) ==
    [i \in 0..(n - 1), j \in 0..(n - 1) |-> (IF i > j THEN i - j ELSE j - i) < 2]

\* np.roll(a, 1) without an axis: the array is flattened, every element moves
\* one place up (the last one to the front), and the shape is restored
roll(a, n) ==
    [i \in 0..(n - 1), j \in 0..(n - 1) |->
        LET k == (i * n + j - 1 + n * n) % (n * n)
        IN  a[k \div n, k % n]]

lattice(n) == roll(band(n), n)

\* the arrays indices reset can draw: 0, a shuffle of 1..n-2, n-1
RCIndices(n) ==
    {f \in [0..(n - 1) -> 0..(n - 1)] :
        /\ f[0] = 0
        /\ f[n - 1] = n - 1
        /\ \A a, b \in 0..(n - 1) : f[a] = f[b] => a = b}

\* np.argmin, np.argmax: the first position of the least, the greatest value
argmin(f, n) ==
    CHOOSE a \in 0..(n - 1) :
        /\ \A b \in 0..(n - 1) : f[a] <= f[b]
        /\ \A b \in 0..(a - 1) : f[b] # f[a]

argmax(f, n) ==
    CHOOSE a \in 0..(n - 1) :
        /\ \A b \in 0..(n - 1) : f[a] >= f[b]
        /\ \A b \in 0..(a - 1) : f[b] # f[a]

\* the flip of step that leaves the new state closed when it was open
flip_open_bare(open, state, goal, n) ==
    [[a \in 0..(n - 1) |-> 1 - open[a]] EXCEPT ![goal] = 1]

\* the flip of step: every flag is inverted, then the state and the goal are
\* opened again
flip_open(open, state, goal, n) ==
    [[a \in 0..(n - 1) |-> 1 - open[a]] EXCEPT ![state] = 1, ![goal] = 1]

\* the actions of action_space: a node when baseline, else a pair of nodes
RCActions ==
    IF rc_baseline THEN 0..(rc_n_states - 1)
    ELSE (0..(rc_n_states - 1)) \X (0..(rc_n_states - 1))

\* int(action[0]) unless baseline, then int(action)
RCNewState(act) == IF rc_baseline THEN act ELSE act[1]

\* ((self.eye[self.state] @ self.transitions) * self.open)[new_state]
open_road(new_state) ==
    (IF rc_transitions[rc_state, new_state] THEN 1 ELSE 0) * rc_open[new_state]

\* Env.__init__
RCInit ==
    /\ rc_n_states \in RCSizes
    /\ rc_baseline \in BOOLEAN
    /\ rc_time_limit \in 0..MaxRCTimeLimit
    /\ rc_transitions = NoneV
    /\ rc_state = NoneV
    /\ rc_goal = NoneV
    /\ rc_open = NoneV
    /\ rc_last = NoneV
    /\ rc_t = NoneV

\* Env.reset, with the shuffle and the parity self.random.choice(2) drawn
RCReset ==
    /\ \E indices \in RCIndices(rc_n_states), parity \in {0, 1} :
         LET n == rc_n_states
             s == argmin(indices, n)
             g == argmax(indices, n)
             op == [a \in 0..(n - 1) |-> IF indices[a] % 2 = parity THEN 1 ELSE 0]
         IN  /\ rc_transitions' =
                    [a \in 0..(n - 1), b \in 0..(n - 1) |->
                        lattice(n)[indices[a], indices[b]]]
             /\ rc_open' = [op EXCEPT ![s] = 1, ![g] = 1]
             /\ rc_state' = s
             /\ rc_goal' = g
    /\ rc_t' = 0
    /\ rc_last' = NoneV
    /\ UNCHANGED <<rc_n_states, rc_baseline, rc_time_limit>>
    /\ UNCHANGED <<gl_vars, lg_vars, hist_vars, tbl_vars, cfg_vars, env_vars, gt_vars,
                   ms_vars, bw_vars>>

\* Env.step(act); flip is the draw self.random.binomial(n=1, size=1, p=flip_prob)
RCStep(act, flip) ==
    /\ rc_t # NoneV
    /\ rc_t < MaxRCT
    /\ rc_t' = rc_t + 1
    /\ LET new_state == RCNewState(act)
       IN  IF open_road(new_state) = 0
              \/ (rc_time_limit # 0 /\ rc_t' > rc_time_limit)
           THEN /\ rc_last' = [state |-> rc_state, action |-> act,
                               reward |-> -rc_time_limit, terminal |-> TRUE]
                /\ UNCHANGED <<rc_state, rc_open>>
           ELSE /\ rc_state' = new_state
                /\ rc_open' = IF flip
                              THEN flip_open(rc_open, new_state, rc_goal, rc_n_states)
                              ELSE rc_open
                /\ rc_last' = [state |-> new_state, action |-> act,
                               reward |-> -1, terminal |-> new_state = rc_goal]
    /\ UNCHANGED <<rc_n_states, rc_baseline, rc_time_limit, rc_transitions, rc_goal>>
    /\ UNCHANGED <<gl_vars, lg_vars, hist_vars, tbl_vars, cfg_vars, env_vars, gt_vars,
                   ms_vars, bw_vars>>

RCStepAny == \E act \in RCActions, flip \in BOOLEAN : RCStep(act, flip)

InitRC == RCInit /\ GLIdle /\ LGIdle /\ EnvIdle /\ GTIdle /\ MSIdle /\ BWIdle

NextRC == RCReset \/ RCStepAny

SpecRC == InitRC /\ [][NextRC]_vars

\* a step call has just returned
RCStepped == rc_t # NoneV /\ rc_t' = rc_t + 1

\* the node the step just taken was aimed at
RCTarget == RCNewState(rc_last'.action)

\* the step just taken was aimed at a node that is not adjacent or not open
RCBlocked == ~rc_transitions[rc_state, RCTarget] \/ rc_open[RCTarget] = 0

\* the step just taken returned terminal=True with reward -time_limit and
\* left the state and the open flags alone
RCRefused ==
    /\ rc_last'.terminal
    /\ rc_last'.reward = -rc_time_limit
    /\ rc_last'.state = rc_state
    /\ rc_state' = rc_state
    /\ rc_open' = rc_open

\* the state and the goal are open once the call has returned
RCEndsOpen == rc_t' # NoneV => rc_open'[rc_state'] = 1 /\ rc_open'[rc_goal'] = 1

\* C33 as stated: after reset and after every step the state and the goal are
\* open, and a step aimed at a node that is not adjacent or not open, or taken
\* after more than time_limit steps, is refused: terminal=True, reward
\* -time_limit, state and open flags unchanged.
C33_AsStated ==
    [][/\ RCEndsOpen
       /\ (RCStepped /\ (RCBlocked \/ rc_t > rc_time_limit)) => RCRefused]_vars

\* C33: after reset and after every step the state and the goal are open; a
\* step is refused (terminal=True, reward -time_limit, state and open flags
\* unchanged) exactly when it is aimed at a node that is not adjacent or not
\* open, or time_limit is not 0 and the step is numbered above time_limit
\* since reset; any other step moves to the node with reward -1, terminal
\* exactly at the goal, and changes the open flags only by a flip.
C33_RefusedUnlessOpenAndInTime ==
    [][/\ RCEndsOpen
       /\ RCStepped =>
            IF RCBlocked \/ (rc_time_limit # 0 /\ rc_t' > rc_time_limit)
            THEN RCRefused
            ELSE /\ rc_state' = RCTarget
                 /\ rc_last'.reward = -1
                 /\ rc_last'.terminal = (rc_state' = rc_goal)
                 /\ \/ rc_open' = rc_open
                    \/ \A a \in 0..(rc_n_states - 1) :
                          rc_open'[a] = IF a \in {rc_state', rc_goal} THEN 1
                                        ELSE 1 - rc_open[a]]_vars

\* a step aimed at an adjacent open node was refused for the time limit alone,
\* after a flip had closed a node that reset had left open
C33_Witness ==
    /\ rc_t # NoneV
    /\ rc_t > 0
    /\ rc_last.terminal
    /\ rc_last.reward = -rc_time_limit
    /\ rc_time_limit # 0
    /\ rc_t > rc_time_limit
    /\ rc_transitions[rc_state, RCNewState(rc_last.action)]
    /\ rc_open[RCNewState(rc_last.action)] = 1
    /\ rc_state # 0
    /\ \E a \in 0..(rc_n_states - 1) : rc_open[a] = 0

(***************************************************************************)
(* blocks_world/env.py: blocks 1..n_blocks stacked in n_cols columns of at *)
(* most n_rows.  self.columns is a sequence of sequences, bottom first;    *)
(* the column Python numbers k is element k + 1.                           *)
(***************************************************************************)
MaxBWT == 3

\* n_cols, n_constraints and search_distance = time_limit - n_constraints of
\* the environments constructed
BWCols == {2, 3}
BWConstraintCounts == {0, 1}
BWSearchDistances == {0, 1}

\* self.n_blocks = self.n_grids * 2 // 3
n_blocks(n) == ((n * n) * 2) \div 3

\* the orders a call of self.random.shuffle leaves a list in.  The draws are
\* bounded to the one that keeps the order and the one that reverses it (all
\* there are for a list of two); with every permutation reset has thousands
\* of outcomes for n_cols = 3.
Shuffles(s) == {s, Reverse(s)}

\* list(itertools.permutations(range(n), 2)): the pairs of distinct columns in
\* lexicographic order
int_to_tuple(n) ==
    [a \in 1..(n * (n - 1)) |->
        LET i == (a - 1) \div (n - 1)
            k == (a - 1) % (n - 1)
        IN  <<i, IF k < i THEN k ELSE k + 1>>]

\* valid without the test of the target's height
valid_from(_from, _to, columns, n_rows) == columns[_from + 1] # <<>>

\* Env.valid
valid(_from, _to, columns, n_rows) ==
    columns[_from + 1] # <<>> /\ Len(columns[_to + 1]) < n_rows

\* columns[_to].append(columns[_from].pop())
move(_from, _to, columns) ==
    LET src == columns[_from + 1]
    IN  [columns EXCEPT ![_from + 1] = SubSeq(src, 1, Len(src) - 1),
                        ![_to + 1] = Append(@, src[Len(src)])]

\* the loop of reset that places the blocks: before each one the columns are
\* shuffled, and the block goes on the first column that is not full
RECURSIVE place(_, _, _)
place(columns, blocks, n_rows) ==
    IF blocks = <<>> THEN {columns}
    ELSE UNION {LET k == CHOOSE c \in 1..Len(cols) :
                             /\ Len(cols[c]) < n_rows
                             /\ \A b \in 1..(c - 1) : Len(cols[b]) >= n_rows
                IN  place([cols EXCEPT ![k] = Append(@, Head(blocks))],
                          Tail(blocks), n_rows)
                : cols \in Shuffles(columns)}

\* what a call can return: a state of the columns, or None
Found(columns) == [found |-> TRUE, columns |-> columns]
NotFound == [found |-> FALSE, columns |-> <<>>]

\* Env.search_ahead: the values it can return over the draws of its shuffles.
\* search_loop is its for loop from the k-th action of the shuffled list on,
\* columns being what the earlier iterations have left.
RECURSIVE search_ahead(_, _, _, _)
RECURSIVE search_loop(_, _, _, _, _, _)
search_ahead(trajectory, columns, n_steps, n_rows) ==
    IF n_steps = 0 THEN {Found(columns)}
    ELSE UNION {search_loop(trajectory \cup {columns}, columns, n_steps, n_rows,
                            actions, 1)
                : actions \in Shuffles(int_to_tuple(n_rows))}

search_loop(trajectory, columns, n_steps, n_rows, actions, k) ==
    IF k > Len(actions) THEN {NotFound}
    ELSE LET _from == actions[k][1]
             _to == actions[k][2]
             cols == IF valid(_from, _to, columns, n_rows)
                     THEN move(_from, _to, columns)
                     ELSE columns
         IN  IF cols \notin trajectory
             THEN LET future == search_ahead(trajectory, cols, n_steps - 1, n_rows)
                  IN  {f \in future : f.found}
                      \cup (IF NotFound \in future
                            THEN search_loop(trajectory, cols, n_steps, n_rows,
                                             actions, k + 1)
                            ELSE {})
             ELSE search_loop(trajectory, cols, n_steps, n_rows, actions, k + 1)

\* the constraints of constraints.py: a is top or left, b is bottom or right
Above(top, bottom) == [type |-> "Above", a |-> top, b |-> bottom]
Below(top, bottom) == [type |-> "Below", a |-> top, b |-> bottom]
Left(left, right) == [type |-> "Left", a |-> left, b |-> right]
Right(left, right) == [type |-> "Right", a |-> left, b |-> right]

\* list.index
index(s, x) == CHOOSE k \in 1..Len(s) : s[k] = x /\ \A j \in 1..(k - 1) : s[j] # x

\* Stacked.satisfied, SideBySide.satisfied
satisfied(c, columns) ==
    IF c.type \in {"Above", "Below"}
    THEN \E k \in 1..Len(columns) :
            /\ c.a \in Range(columns[k])
            /\ c.b \in Range(columns[k])
            /\ \A j \in 1..(k - 1) :
                  ~(c.a \in Range(columns[j]) /\ c.b \in Range(columns[j]))
            /\ index(columns[k], c.a) = index(columns[k], c.b) + 1
    ELSE LET col(x) == CHOOSE k \in 1..Len(columns) :
                          /\ x \in Range(columns[k])
                          /\ \A j \in 1..(k - 1) : x \notin Range(columns[j])
         IN  /\ col(c.a) + 1 = col(c.b)
             /\ index(columns[col(c.a)], c.a) = index(columns[col(c.b)], c.b)

RECURSIVE Flatten(_)
Flatten(ss) == IF Len(ss) = 0 THEN <<>> ELSE Head(ss) \o Flatten(Tail(ss))

\* generate_constraints of reset, as the list it yields
generate_constraints(final_state) ==
    LET n == Len(final_state)
        height == IF n = 0 THEN 0
                  ELSE CHOOSE h \in 0..n_blocks(n) :
                          /\ \A k \in 1..n : Len(final_state[k]) <= h
                          /\ \E k \in 1..n : Len(final_state[k]) = h
        stacked(column) ==
            Flatten([k \in 1..(Len(column) - 1) |->
                        <<Above(column[k + 1], column[k]),
                          Below(column[k + 1], column[k])>>])
        side(row) ==
            Flatten([k \in 1..(n - 1) |->
                        IF Len(final_state[k]) >= row /\ Len(final_state[k + 1]) >= row
                        THEN <<Left(final_state[k][row], final_state[k + 1][row]),
                               Right(final_state[k][row], final_state[k + 1][row])>>
                        ELSE <<>>])
    IN  Flatten([k \in 1..n |-> stacked(final_state[k])])
        \o Flatten([row \in 1..height |-> side(row)])

\* what reset can leave in columns and constraints: <<columns, constraints>>.
\* For the search distances 0 and 1 search_ahead always returns a state (some
\* column holds a block and another is not full), so final_state is not None.
reset_outcomes(n_cols, n_constraints, search_distance) ==
    LET blocks == [k \in 1..n_blocks(n_cols) |-> k]
        empty == [k \in 1..n_cols |-> <<>>]
    IN  UNION {UNION {UNION {
            LET unsat == SelectSeq(generate_constraints(final.columns),
                                   LAMBDA c : ~satisfied(c, columns))
            IN  {<<columns, SubSeq(cs, 1, IF Len(cs) < n_constraints THEN Len(cs)
                                          ELSE n_constraints)>>
                 : cs \in Shuffles(unsat)}
            : final \in {f \in search_ahead({}, columns, search_distance, n_cols) :
                            f.found}}
            : columns \in place(empty, order, n_cols)}
            : order \in Shuffles(blocks)}

\* the outcomes of reset per configuration
BWResets ==
    [n \in BWCols, c \in BWConstraintCounts, d \in BWSearchDistances |->
        reset_outcomes(n, c, d)]

\* the actions of action_space, Discrete(len(self.int_to_tuple))
BWActions == 0..(bw_n_cols * (bw_n_cols - 1) - 1)

\* Env.__init__
BWInit ==
    /\ bw_n_cols \in BWCols
    /\ bw_n_constraints \in BWConstraintCounts
    /\ bw_search_distance \in BWSearchDistances
    /\ bw_columns = NoneV
    /\ bw_constraints = NoneV
    /\ bw_last = NoneV
    /\ bw_t = NoneV

\* Env.reset
BWReset ==
    /\ \E o \in BWResets[bw_n_cols, bw_n_constraints, bw_search_distance] :
         /\ bw_columns' = o[1]
         /\ bw_constraints' = o[2]
    /\ bw_t' = 0
    /\ bw_last' = NoneV
    /\ UNCHANGED <<bw_n_cols, bw_n_constraints, bw_search_distance>>
    /\ UNCHANGED <<gl_vars, lg_vars, hist_vars, tbl_vars, cfg_vars, env_vars, gt_vars,
                   ms_vars, rc_vars>>

\* Env.step(act)
BWStep(act) ==
    /\ bw_t # NoneV
    /\ bw_t < MaxBWT
    /\ bw_t' = bw_t + 1
    /\ IF bw_t' <= bw_n_constraints
       THEN UNCHANGED <<bw_columns, bw_last>>
       ELSE LET _from == int_to_tuple(bw_n_cols)[act + 1][1]
                _to == int_to_tuple(bw_n_cols)[act + 1][2]
                done == \A k \in 1..Len(bw_constraints) :
                           satisfied(bw_constraints[k], bw_columns')
            IN  /\ bw_columns' = IF valid(_from, _to, bw_columns, bw_n_cols)
                                 THEN move(_from, _to, bw_columns)
                                 ELSE bw_columns
                /\ bw_last' = [action |-> <<_from, _to>>,
                               reward |-> IF done THEN 1 ELSE 0,
                               terminal |-> done, go |-> 0]
    /\ UNCHANGED <<bw_n_cols, bw_n_constraints, bw_search_distance, bw_constraints>>
    /\ UNCHANGED <<gl_vars, lg_vars, hist_vars, tbl_vars, cfg_vars, env_vars, gt_vars,
                   ms_vars, rc_vars>>

BWStepAny == \E act \in BWActions : BWStep(act)

InitBW == BWInit /\ GLIdle /\ LGIdle /\ EnvIdle /\ GTIdle /\ MSIdle /\ RCIdle

NextBW == BWReset \/ BWStepAny

SpecBW == InitBW /\ [][NextBW]_vars

\* every block 1..n_blocks lies in exactly one column, once, and no column is
\* higher than n_rows
WellStacked(columns, n) ==
    /\ Len(columns) = n
    /\ Len(Flatten(columns)) = n_blocks(n)
    /\ Range(Flatten(columns)) = 1..n_blocks(n)
    /\ \A k \in 1..n : Len(columns[k]) <= n

\* a step call has just returned
BWStepped == bw_t # NoneV /\ bw_t' = bw_t + 1

\* the step just taken was one of the first n_constraints of its episode
BWWaiting == bw_t' <= bw_n_constraints

\* the source column and the target column of the step just taken
BWFrom == bw_last'.action[1] + 1
BWTo == bw_last'.action[2] + 1

\* C34: after reset and after any steps every block 1..n_blocks is in exactly
\* one column and no column holds more than n_rows blocks; a step that is one
\* of the first n_constraints of its episode, or whose source column is empty
\* or whose target column is full, leaves the columns unchanged, and any other
\* step moves the top block of the source onto the target.
C34_BlocksConserved ==
    /\ [](bw_t # NoneV => WellStacked(bw_columns, bw_n_cols))
    /\ [][BWStepped =>
            IF BWWaiting
            THEN bw_columns' = bw_columns
            ELSE IF \/ bw_columns[BWFrom] = <<>>
                    \/ Len(bw_columns[BWTo]) >= bw_n_cols
                 THEN bw_columns' = bw_columns
                 ELSE /\ bw_columns'[BWTo] =
                            Append(bw_columns[BWTo],
                                   bw_columns[BWFrom][Len(bw_columns[BWFrom])])
                      /\ Append(bw_columns'[BWFrom],
                                bw_columns[BWFrom][Len(bw_columns[BWFrom])])
                            = bw_columns[BWFrom]
                      /\ \A k \in 1..bw_n_cols :
                            k \notin {BWFrom, BWTo} => bw_columns'[k] = bw_columns[k]]_vars

\* in an episode that began with a step ignored for the constraints, a block
\* was moved and then a step from a full column onto a full column was taken
\* (had it moved a block, its source would not be full now)
C34_Witness ==
    /\ bw_t # NoneV
    /\ bw_n_constraints > 0
    /\ bw_t > bw_n_constraints + 1
    /\ Len(bw_columns[bw_last.action[1] + 1]) = bw_n_cols
    /\ Len(bw_columns[bw_last.action[2] + 1]) = bw_n_cols
    /\ bw_columns \notin {o[1] : o \in BWResets[bw_n_cols, bw_n_constraints,
                                                bw_search_distance]}

====
